---- MODULE Spec2Model ----
(***************************************************************************)
(* Model of the HottoH stove driver: the polling client of src/client.ts   *)
(* (HottohRemoteClient), the socket and stove it talks to, and the         *)
(* accessors of the Hottoh class that read its snapshots.                  *)
(*                                                                         *)
(* JavaScript runs one callback at a time.  A callback that settles a      *)
(* promise, or an event that has several listeners, leaves work that runs  *)
(* before any other event is taken: that work is the queue `run`.  Every   *)
(* event and every call of the public API is taken only when `run` is      *)
(* empty.                                                                  *)
(***************************************************************************)
EXTENDS Integers, Sequences, FiniteSets, TLC

\* ---------------------------------------------------------------- bounds
MaxCmds == 2        \* parameter lists passed to sendCommand
MaxFrames == 4      \* frames written, all cycles together
MaxDials == 2       \* __dial runs in flight at once
MaxHandlers == 2    \* 'connect' listeners registered by __connect
MaxLeaked == 1      \* loop timers pending that _loopTimeout no longer names
MaxCmdsOk == 3      \* the same as MaxCmds, when no exchange fails (SpecOk)
MaxFramesOk == 10   \* the same as MaxFrames, when no exchange fails (SpecOk)
MaxCmdsLive == 2    \* the same as MaxCmds, in the fair runs (SpecLive)
MaxFramesLive == 8  \* the same as MaxFrames, in the fair runs (SpecLive)

\* ------------------------------------------------------- text and frames
\* Text is a sequence of characters; a character is an integer.  The data
\* characters are positive; the two separators are:
SEMI == 0
NL == -1

\* data.split(';')
RECURSIVE _extractData(_)
_extractData(data) ==
  IF \A i \in 1..Len(data) : data[i] # SEMI
  THEN <<data>>
  ELSE LET i == CHOOSE j \in 1..Len(data) :
                  data[j] = SEMI /\ \A m \in 1..(j-1) : data[m] # SEMI
       IN <<SubSeq(data, 1, i-1)>> \o _extractData(SubSeq(data, i+1, Len(data)))

\* this._responseBuffer.includes('\n')
HasLine(buf) == \E i \in 1..Len(buf) : buf[i] = NL

\* const [response] = this._responseBuffer.split('\n')
FirstLine(buf) ==
  LET i == CHOOSE j \in 1..Len(buf) :
             buf[j] = NL /\ \A m \in 1..(j-1) : buf[m] # NL
  IN SubSeq(buf, 1, i-1)

\* The line the stove sends in answer to the n-th frame: two fields that
\* carry n, so that a stored snapshot tells which frame it answers.
ResponseLine(n) == <<n, SEMI, n, NL>>

\* Where the network may cut a response line in two segments.
SegmentCuts == {2}

RECURSIVE Flatten(_)
Flatten(chunks) == IF chunks = <<>> THEN <<>> ELSE Head(chunks) \o Flatten(Tail(chunks))

\* The parameter list of the k-th sendCommand call.
ParamsOf(k) == <<ToString(k), "1">>

\* A snapshot slot: null, or the fields of a resolved exchange.
NULL == [present |-> FALSE, fields |-> <<>>]
Snapshot(fields) == [present |-> TRUE, fields |-> fields]

NoFrame == [seq |-> 0, cyc |-> 0, command |-> "", mode |-> "", parameters |-> <<>>]

\* ------------------------------------------------------------ Request
\* In a frame the characters other than ';' and '\n' are their code points.
Ascii ==
  ("#" :> 35) @@ ("-" :> 45) @@ ("0" :> 48) @@ ("1" :> 49) @@ ("2" :> 50) @@
  ("A" :> 65) @@ ("C" :> 67) @@ ("D" :> 68) @@ ("E" :> 69) @@ ("F" :> 70) @@
  ("I" :> 73) @@ ("N" :> 78) @@ ("R" :> 82) @@ ("T" :> 84) @@ ("W" :> 87) @@
  ("e'" :> 233) @@ (";" :> SEMI) @@ ("\n" :> NL) @@
  ("3" :> 51) @@ ("4" :> 52) @@ ("5" :> 53) @@ ("6" :> 54) @@ ("7" :> 55) @@
  ("8" :> 56) @@ ("9" :> 57) @@ ("." :> 46) @@ (" " :> 32) @@ ("a" :> 97)
Text(letters) == [i \in 1..Len(letters) |-> Ascii[letters[i]]]

\* Buffer.from(message, 'utf-8')
CodePoint(ch) == IF ch = SEMI THEN 59 ELSE IF ch = NL THEN 10 ELSE ch
RECURSIVE Utf8(_)
Utf8(message) ==
  IF message = <<>> THEN <<>>
  ELSE LET c == CodePoint(Head(message)) IN
       (IF c < 128 THEN <<c>> ELSE <<192 + (c \div 64), 128 + (c % 64)>>)
       \o Utf8(Tail(message))

\* n.toString(16).toUpperCase()
HexDigit(d) == IF d < 10 THEN 48 + d ELSE 55 + d
RECURSIVE ToUpperHex(_)
ToUpperHex(n) ==
  IF n < 16 THEN <<HexDigit(n)>>
  ELSE ToUpperHex(n \div 16) \o <<HexDigit(n % 16)>>

\* s.padStart(4, '0')
padStart4(s) == IF Len(s) >= 4 THEN s ELSE [i \in 1..(4 - Len(s)) |-> 48] \o s

\* a ^ b, on non-negative integers
RECURSIVE Xor(_, _)
Xor(a, b) ==
  IF a = 0 THEN b ELSE IF b = 0 THEN a
  ELSE 2 * Xor(a \div 2, b \div 2) + ((a + b) % 2)

\* crc.crc16ccitt of the npm package crc: table driven, from 0xffff.  An
\* entry of its table is the remainder of its index, as the high byte of
\* 16 bits, after eight steps of division by the polynomial 0x1021.
RECURSIVE TableStep(_, _)
TableStep(r, steps) ==
  IF steps = 0 THEN r
  ELSE TableStep(IF r >= 32768 THEN Xor((2 * r) % 65536, 4129) ELSE 2 * r, steps - 1)
TABLE(index) == TableStep(index * 256, 8)

crc16ccittStep(crc, byte) ==
  Xor(TABLE(Xor(crc \div 256, byte) % 256), crc * 256) % 65536
\* The loop over the bytes; the set binds the value of crc after this byte
\* before the loop goes on.
RECURSIVE crc16ccittFrom(_, _, _)
crc16ccittFrom(crc, bytes, index) ==
  IF index > Len(bytes) THEN crc
  ELSE CHOOSE result \in {crc16ccittFrom(next, bytes, index + 1) :
                            next \in {crc16ccittStep(crc, bytes[index])}} : TRUE
crc16ccitt(bytes) == crc16ccittFrom(65535, bytes, 1)

\* this.parameters.join(';') + ";"
RECURSIVE join(_)
join(parameters) ==
  IF parameters = <<>> THEN <<>>
  ELSE IF Len(parameters) = 1 THEN parameters[1]
  ELSE parameters[1] \o <<SEMI>> \o join(Tail(parameters))

\* _getParameters, without the trailing ';'.
_getParameters_NoTrailing(r) == join(r.parameters)

_getParameters(r) == join(r.parameters) \o <<SEMI>>

\* _getRawData, with the number of parameters as the length field.
_getRawData_CountsParameters(r) ==
  LET paramString == _getParameters(r)
      lenParameters == padStart4(ToUpperHex(Len(r.parameters)))
  IN lenParameters \o r.command \o r.mode \o paramString

_getRawData(r) ==
  LET paramString == _getParameters(r)
      lenParameters == padStart4(ToUpperHex(Len(paramString)))
  IN lenParameters \o r.command \o r.mode \o paramString

_getCrc(message) == padStart4(ToUpperHex(crc16ccitt(Utf8(message))))

\* _buildRawPacket, with the checksum taken over the leading '#' as well.
_buildRawPacket_CrcCoversHash(r) ==
  LET strSocketId == Text(<<"0", "0", "0", "0", "0">>)
      strRawData == _getRawData(r)
      strData == strSocketId \o Text(<<"C", "-", "-", "-">>) \o strRawData
      strCrc == _getCrc(Text(<<"#">>) \o strData)
  IN [r EXCEPT !.request = Text(<<"#">>) \o strData \o strCrc \o <<NL>>]

\* _buildRawPacket, with the id of the constructor as the socket id.
_buildRawPacket_UsesId(r) ==
  LET strSocketId == Text(<<"0", "0", "0", "0">>) \o <<48 + r.id>>
      strRawData == _getRawData(r)
      strData == strSocketId \o Text(<<"C", "-", "-", "-">>) \o strRawData
      strCrc == _getCrc(strData)
  IN [r EXCEPT !.request = Text(<<"#">>) \o strData \o strCrc \o <<NL>>]

_buildRawPacket(r) ==
  LET strSocketId == Text(<<"0", "0", "0", "0", "0">>)
      strRawData == _getRawData(r)
      strData == strSocketId \o Text(<<"C", "-", "-", "-">>) \o strRawData
      strCrc == _getCrc(strData)
  IN [r EXCEPT !.request = Text(<<"#">>) \o strData \o strCrc \o <<NL>>]

\* new Request(command, mode, parameters, id)
Request(c, m, P, id) ==
  _buildRawPacket([command |-> c, mode |-> m, parameters |-> P, id |-> id,
                   request |-> <<>>])

getRequest(r) == Utf8(r.request)

\* Nothing was read from the Hottoh accessors yet.
NoReading == [what |-> "nothing"]

\* No Request object.
NoRequest == [command |-> <<>>, mode |-> <<>>, parameters |-> <<>>, id |-> 0,
              request |-> <<>>]

\* The inputs of the Request constructor that are tried.
Commands == {Text(<<"D", "A", "T">>), Text(<<"I", "N", "F">>)}
Modes == {Text(<<"R">>), Text(<<"W">>), Text(<<"E">>)}
Strings == {<<>>, Text(<<"0">>), Text(<<"1", "2">>), Text(<<"e'">>),
            Text(<<"1", ";", "2">>), [i \in 1..11 |-> Ascii["A"]]}
MaxParams == 2
ParameterLists == UNION {[1..n -> Strings] : n \in 0..MaxParams}
Ids == {0, 7}
MaxCalls == 2       \* getRequest calls on one Request

\* ------------------------------------------------------------- the state
VARIABLES
  _info, _data, _data2,    \* the three snapshots
  _writeParameters,        \* the command queue: submission numbers, head first
  __isConnected,
  __endRequest,
  _responseBuffer,
  _loopTimeout,            \* 0: null; else the delay of the timer it names
  leaked,                  \* pending loop timers _loopTimeout does not name
  connectHandlers,         \* 'connect' listeners of __connect on the socket
  sock,                    \* "idle", "connecting", "open", "null"
  wEnded,                  \* socket.end() was called on this connection
  dials,                   \* the __dial runs in flight, in listener order
  run,                     \* callbacks and continuations that run next
  stoveIn,                 \* frames the stove has received and not answered
  stream,                  \* segments the stove has sent, not yet read
  nframes, ncycles,        \* frames written; __dial runs started
  lastFrame,               \* the frame written last
  submitted,               \* sendCommand calls so far
  sent,                    \* per submission: write frames written for it
  acked,                   \* per submission: a write exchange for it resolved
  writer,                  \* per slot: the cycle that stored it last
  failedAt,                \* per slot: its latest fetch failed
  anyFailure,              \* an exchange was rejected or a connect failed
  disposed,
  started,                 \* start() was called
  cancelled,               \* stop() cleared a pending timer, and no start() since
  orphans,                 \* 60 s timers of exchanges whose listeners dispose() removed
  uncaught,                \* an exception was thrown out of a callback
  theRequest,              \* a Request object, as its constructor left it
  gotRequest,              \* what its getRequest calls returned, in order
  reading,                 \* what the Hottoh accessors returned when last called
  client0                  \* the client before 1.0.1, which has no dispose()

clientVars == << _info, _data, _data2, _writeParameters, __isConnected, __endRequest,
           _responseBuffer, _loopTimeout, leaked, connectHandlers, sock, wEnded,
           dials, run, stoveIn, stream, nframes, ncycles, lastFrame, submitted,
           sent, acked, writer, failedAt, anyFailure, disposed, started,
           cancelled, orphans, uncaught >>

vars == << clientVars, theRequest, gotRequest, reading, client0 >>

Slots == {"info", "data", "data2"}

\* The state as one record, so that a handler can be composed of the
\* methods it calls.
Client ==
  [ info |-> _info, data |-> _data, data2 |-> _data2,
    queue |-> _writeParameters, isConnected |-> __isConnected,
    endRequest |-> __endRequest, buf |-> _responseBuffer,
    loopTimeout |-> _loopTimeout, leaked |-> leaked,
    connectHandlers |-> connectHandlers, sock |-> sock, wEnded |-> wEnded,
    dials |-> dials, run |-> run, stoveIn |-> stoveIn, stream |-> stream,
    nframes |-> nframes, ncycles |-> ncycles, lastFrame |-> lastFrame,
    submitted |-> submitted, sent |-> sent, acked |-> acked,
    writer |-> writer, failedAt |-> failedAt, anyFailure |-> anyFailure,
    disposed |-> disposed, started |-> started, cancelled |-> cancelled,
    orphans |-> orphans, uncaught |-> uncaught ]

Become(r) ==
  /\ _info' = r.info /\ _data' = r.data /\ _data2' = r.data2
  /\ _writeParameters' = r.queue /\ __isConnected' = r.isConnected
  /\ __endRequest' = r.endRequest /\ _responseBuffer' = r.buf
  /\ _loopTimeout' = r.loopTimeout /\ leaked' = r.leaked
  /\ connectHandlers' = r.connectHandlers /\ sock' = r.sock /\ wEnded' = r.wEnded
  /\ dials' = r.dials /\ run' = r.run /\ stoveIn' = r.stoveIn /\ stream' = r.stream
  /\ nframes' = r.nframes /\ ncycles' = r.ncycles /\ lastFrame' = r.lastFrame
  /\ submitted' = r.submitted /\ sent' = r.sent /\ acked' = r.acked
  /\ writer' = r.writer /\ failedAt' = r.failedAt /\ anyFailure' = r.anyFailure
  /\ disposed' = r.disposed /\ started' = r.started /\ cancelled' = r.cancelled
  /\ orphans' = r.orphans /\ uncaught' = r.uncaught
  /\ UNCHANGED << theRequest, gotRequest, reading, client0 >>

\* ------------------------------------- the client before 1.0.1 (no dispose)
\* Its control state: the socket, the flags, the listeners registered on
\* the socket, the loop timers that are pending (5 s retries and 1 s
\* polls), the position of every __dial run in flight (1..3: the response
\* to INF, DAT 0, DAT 2 is awaited; 4: the response to a write), the length
\* of the queue, and the calls of start() and of socket.connect so far.
MaxStarts0 == 2
MaxAttempts0 == 4
MaxTimers0 == 4
MaxListeners0 == 4
MaxDials0 == 2
MaxQueue0 == 1

Constructed0 ==
  [ sock |-> "idle", isConnected |-> FALSE, endRequest |-> FALSE,
    errorListeners |-> 0, connectListeners |-> 0,
    retryTimers |-> 0, pollTimers |-> 0, dials |-> <<>>, queue |-> 0,
    starts |-> 0, attempts |-> 0, everConnected |-> FALSE ]

InBounds0(o) ==
  /\ o.attempts <= MaxAttempts0
  /\ o.retryTimers + o.pollTimers <= MaxTimers0
  /\ o.errorListeners <= MaxListeners0 /\ o.connectListeners <= MaxListeners0
  /\ Len(o.dials) <= MaxDials0

\* this._socket.write on a socket that was ended fails: the socket will
\* emit 'error'.
Write0(o) == IF o.sock = "ended" THEN [o EXCEPT !.sock = "failing"] ELSE o

\* __dial, up to its first await
__dial0(o) ==
  IF ~o.isConnected THEN o
  ELSE Write0([o EXCEPT !.dials = Append(@, 1)])

\* __connect. socket.connect registers the callback as a 'connect' listener
\* and starts connecting; on a socket that is connecting or connected the
\* attempt fails, with an 'error' event or, when connected, by throwing
\* EISCONN, which schedules two timers. The 'error' listener is added
\* in every case.
__connect0(o) ==
  LET o1 == [o EXCEPT !.attempts = @ + 1, !.errorListeners = @ + 1] IN
  IF o.sock = "idle"
  THEN {[o1 EXCEPT !.connectListeners = @ + 1, !.sock = "connecting"]}
  ELSE {[o1 EXCEPT !.connectListeners = @ + 1, !.sock = "failing"]}
       \cup (IF o.sock = "open"
             THEN {[o1 EXCEPT !.isConnected = FALSE, !.retryTimers = @ + 2]}
             ELSE {})

loop0(o) == IF o.isConnected THEN {__dial0(o)} ELSE __connect0(o)

\* The callbacks of socket.connect, one after the other: each sets
\* __isConnected and calls loop().
RECURSIVE Connected0(_, _)
Connected0(o, n) ==
  IF n = 0 THEN o
  ELSE Connected0(__dial0([o EXCEPT !.isConnected = TRUE,
                                    !.connectListeners = @ - 1]), n - 1)

\* The __dial run at index i continues after its response: the next
\* request, or the next entry of the queue, or the 1 s timer.
Continue0(o, i) ==
  LET p == o.dials[i]
      q == IF p = 4 /\ o.queue > 0 THEN o.queue - 1 ELSE o.queue
      Rest(s) == SubSeq(s, 1, i - 1) \o SubSeq(s, i + 1, Len(s))
  IN IF p < 3 THEN Write0([o EXCEPT !.dials[i] = p + 1])
     ELSE IF q > 0 THEN Write0([o EXCEPT !.dials[i] = 4, !.queue = q])
     ELSE [o EXCEPT !.dials = Rest(@), !.queue = 0, !.pollTimers = @ + 1]

\* 'data' with a response line: onData of every exchange in flight
\* resolves, and the runs continue in the order of their listeners.
RECURSIVE Resolve0(_, _, _)
Resolve0(o, i, n) ==
  IF n = 0 THEN o
  ELSE Resolve0(Continue0(o, i),
                IF Len(Continue0(o, i).dials) < Len(o.dials) THEN i ELSE i + 1,
                n - 1)

Become0(o) ==
  /\ InBounds0(o)
  /\ client0' = o
  /\ UNCHANGED << clientVars, theRequest, gotRequest, reading >>

start0 ==
  /\ client0.starts < MaxStarts0
  /\ \E o \in (IF client0.endRequest THEN {client0} ELSE loop0(client0)) :
       Become0([o EXCEPT !.starts = @ + 1])

stop0 ==
  /\ ~client0.endRequest
  /\ Become0([client0 EXCEPT !.endRequest = TRUE,
                             !.sock = IF @ = "open" THEN "ended" ELSE @])

sendCommand0 ==
  /\ client0.queue < MaxQueue0
  /\ Become0([client0 EXCEPT !.queue = @ + 1])

\* A 5 s timer fires.
RetryTimer0 ==
  /\ client0.retryTimers > 0
  /\ \E o \in loop0([client0 EXCEPT !.retryTimers = @ - 1]) : Become0(o)

\* A 1 s timer fires.
PollTimer0 ==
  /\ client0.pollTimers > 0
  /\ \E o \in loop0([client0 EXCEPT !.pollTimers = @ - 1]) : Become0(o)

\* The connection is established.
SocketConnect0 ==
  /\ client0.sock = "connecting"
  /\ Become0(Connected0([client0 EXCEPT !.sock = "open", !.everConnected = TRUE],
                        client0.connectListeners))

\* The socket emits 'error' and closes: every listener __connect added
\* schedules a retry, and every exchange in flight rejects, so that its
\* __dial run schedules one too.
SocketError0 ==
  /\ client0.sock \in {"connecting", "open", "ended", "failing"}
  /\ Become0([client0 EXCEPT !.sock = "idle", !.isConnected = FALSE,
                             !.retryTimers = @ + client0.errorListeners
                                               + Len(client0.dials),
                             !.dials = <<>>])

\* The stove answers the frames that were written.
Respond0 ==
  /\ client0.sock \in {"open", "ended"} /\ client0.dials # <<>>
  /\ Become0(Resolve0(client0, 1, Len(client0.dials)))

\* The 60 s timer of an exchange fires.
ExchangeTimeout0 ==
  /\ \E i \in 1..Len(client0.dials) :
       Become0([client0 EXCEPT !.isConnected = FALSE, !.retryTimers = @ + 1,
                               !.dials = SubSeq(@, 1, i - 1)
                                           \o SubSeq(@, i + 1, Len(@))])

Next0 ==
  \/ start0
  \/ stop0
  \/ sendCommand0
  \/ RetryTimer0
  \/ PollTimer0
  \/ SocketConnect0
  \/ SocketError0
  \/ Respond0
  \/ ExchangeTimeout0

\* The bounds of the model, on the state an action leads to.
InBounds(r, maxFrames) ==
  /\ r.nframes <= maxFrames
  /\ Len(r.dials) <= MaxDials
  /\ r.connectHandlers <= MaxHandlers
  /\ r.leaked <= MaxLeaked

Init ==
  /\ _info = NULL /\ _data = NULL /\ _data2 = NULL
  /\ _writeParameters = <<>>
  /\ __isConnected = FALSE /\ __endRequest = FALSE
  /\ _responseBuffer = <<>>
  /\ _loopTimeout = 0 /\ leaked = 0
  /\ connectHandlers = 0
  /\ sock = "idle" /\ wEnded = FALSE
  /\ dials = <<>> /\ run = <<>>
  /\ stoveIn = <<>> /\ stream = <<>>
  /\ nframes = 0 /\ ncycles = 0 /\ lastFrame = NoFrame
  /\ submitted = 0
  /\ sent = [k \in 1..(MaxCmds + MaxCmdsOk) |-> 0]
  /\ acked = [k \in 1..(MaxCmds + MaxCmdsOk) |-> FALSE]
  /\ writer = [x \in Slots |-> 0]
  /\ failedAt = [x \in Slots |-> FALSE]
  /\ anyFailure = FALSE
  /\ disposed = FALSE
  /\ started = FALSE
  /\ cancelled = FALSE
  /\ orphans = 0 /\ uncaught = FALSE
  /\ theRequest = NoRequest /\ gotRequest = <<>>
  /\ reading = NoReading
  /\ client0 = Constructed0

\* ------------------------------------------------------------ the client
ConnItem == [k |-> "connect", cyc |-> 0]
ErrItem == [k |-> "error", cyc |-> 0]
DialItem(c) == [k |-> "dial", cyc |-> c]

\* this._loopTimeout = setTimeout(() => this.loop(), delay): a timer the
\* field named before stays pending, and nothing names it any more.
SetLoopTimeout(s, delay) ==
  [s EXCEPT !.loopTimeout = delay,
            !.leaked = IF s.loopTimeout # 0 THEN @ + 1 ELSE @]

\* new Request(command, mode, parameters) and this._socket.write(request):
\* the stove receives the frame if the connection is open for writing.
WriteFrame(s, c, command, mode, parameters) ==
  LET n == s.nframes + 1 IN
  [s EXCEPT !.nframes = n,
            !.lastFrame = [seq |-> n, cyc |-> c, command |-> command,
                           mode |-> mode, parameters |-> parameters],
            !.stoveIn = IF s.sock = "open" /\ ~s.wEnded THEN Append(@, n) ELSE @]

\* _sendRequestAndWaitForResponse, up to the promise it returns: the data
\* and error listeners are added last on the socket, the frame is written,
\* the 60 s timer is armed.  d is the __dial run that awaits the promise.
SendRequest(s, d, command, mode, parameters) ==
  LET s1 == WriteFrame(s, d.cyc, command, mode, parameters) IN
  [s1 EXCEPT !.dials = Append(@, [d EXCEPT !.st = "wait", !.val = <<>>])]

_get_data(s, d, command, parameters) == SendRequest(s, d, command, "R", parameters)

_set_data(s, d, parameters) == SendRequest(s, d, "DAT", "W", parameters)

\* __dial, from its call to its first await.
DialStart(s) ==
  IF ~s.isConnected \/ s.endRequest THEN s
  ELSE LET c == s.ncycles + 1
           d == [cyc |-> c, pc |-> "info", st |-> "wait", val |-> <<>>, param |-> 0,
                 pre |-> [info |-> s.info, data |-> s.data, data2 |-> s.data2],
                 preW |-> s.writer]
       IN _get_data([s EXCEPT !.ncycles = c], d, "INF", <<"">>)

\* The queue drain, writing the entry that was queued last.
Drain_SendsLast(s, d) ==
  IF Len(s.queue) > 0 /\ ~s.endRequest
  THEN LET param == s.queue[Len(s.queue)]
           s1 == [s EXCEPT !.sent[param] = @ + 1]
       IN _set_data(s1, [d EXCEPT !.pc = "write", !.param = param], ParamsOf(param))
  ELSE IF ~s.endRequest THEN SetLoopTimeout(s, 1000) ELSE s

\* The queue drain, scheduling the next cycle with the delay of a retry.
Drain_Retry5s(s, d) ==
  IF Len(s.queue) > 0 /\ ~s.endRequest
  THEN LET param == s.queue[1]
           s1 == [s EXCEPT !.sent[param] = @ + 1]
       IN SendRequest(s1, [d EXCEPT !.pc = "write", !.param = param], "DAT", "W",
                      ParamsOf(param))
  ELSE IF ~s.endRequest THEN SetLoopTimeout(s, 5000) ELSE s

\* __dial, the queue drain and what follows it, up to the next await or the end.
Drain(s, d) ==
  IF Len(s.queue) > 0 /\ ~s.endRequest
  THEN LET param == s.queue[1]
           s1 == [s EXCEPT !.sent[param] = @ + 1]
       IN _set_data(s1, [d EXCEPT !.pc = "write", !.param = param], ParamsOf(param))
  ELSE IF ~s.endRequest THEN SetLoopTimeout(s, 1000) ELSE s

\* Store, with the responses of the two DAT fetches in each other's slot.
Store_SwapsData(s, d) ==
  CASE d.pc = "info" -> [s EXCEPT !.info = Snapshot(d.val), !.writer["info"] = d.cyc,
                                  !.failedAt["info"] = FALSE]
    [] d.pc = "data" -> [s EXCEPT !.data2 = Snapshot(d.val), !.writer["data2"] = d.cyc,
                                  !.failedAt["data2"] = FALSE]
    [] d.pc = "data2" -> [s EXCEPT !.data = Snapshot(d.val), !.writer["data"] = d.cyc,
                                   !.failedAt["data"] = FALSE]

\* The assignment of an awaited response to its slot.
Store(s, d) ==
  CASE d.pc = "info" -> [s EXCEPT !.info = Snapshot(d.val), !.writer["info"] = d.cyc,
                                  !.failedAt["info"] = FALSE]
    [] d.pc = "data" -> [s EXCEPT !.data = Snapshot(d.val), !.writer["data"] = d.cyc,
                                  !.failedAt["data"] = FALSE]
    [] d.pc = "data2" -> [s EXCEPT !.data2 = Snapshot(d.val), !.writer["data2"] = d.cyc,
                                   !.failedAt["data2"] = FALSE]

\* __dial, from an await that resolved to the next await or the end.
DialResolved(s, d) ==
  CASE d.pc = "info" -> _get_data(Store(s, d), [d EXCEPT !.pc = "data"], "DAT", <<"0">>)
    [] d.pc = "data" -> _get_data(Store(s, d), [d EXCEPT !.pc = "data2"], "DAT", <<"2">>)
    [] d.pc = "data2" -> Drain(Store(s, d), d)
    [] d.pc = "write" ->
         Drain([s EXCEPT !.queue = IF Len(@) > 0 THEN Tail(@) ELSE @,
                         !.acked[d.param] = TRUE], d)

\* The catch block, retrying after the delay of a successful cycle.
DialRejected_Retry1s(s, d) ==
  LET s1 == [s EXCEPT !.isConnected = FALSE,
                      !.failedAt = IF d.pc \in Slots
                                   THEN [@ EXCEPT ![d.pc] = TRUE] ELSE @]
  IN IF ~s1.endRequest THEN SetLoopTimeout(s1, 1000) ELSE s1

\* The catch block, resetting the slot whose fetch failed.
DialRejected_ClearsSlot(s, d) ==
  LET s0 == CASE d.pc = "info" -> [s EXCEPT !.info = NULL]
              [] d.pc = "data" -> [s EXCEPT !.data = NULL]
              [] d.pc = "data2" -> [s EXCEPT !.data2 = NULL]
              [] OTHER -> s
      s1 == [s0 EXCEPT !.isConnected = FALSE,
                       !.failedAt = IF d.pc \in Slots
                                    THEN [@ EXCEPT ![d.pc] = TRUE] ELSE @]
  IN IF ~s1.endRequest THEN SetLoopTimeout(s1, 5000) ELSE s1

\* The catch block, removing the entry whose write exchange failed.
DialRejected_ShiftsQueue(s, d) ==
  LET s1 == [s EXCEPT !.isConnected = FALSE,
                      !.queue = IF d.pc = "write" /\ Len(@) > 0 THEN Tail(@) ELSE @,
                      !.failedAt = IF d.pc \in Slots
                                   THEN [@ EXCEPT ![d.pc] = TRUE] ELSE @]
  IN IF ~s1.endRequest THEN SetLoopTimeout(s1, 5000) ELSE s1

\* __dial, the catch block.
DialRejected(s, d) ==
  LET s1 == [s EXCEPT !.isConnected = FALSE,
                      !.failedAt = IF d.pc \in Slots
                                   THEN [@ EXCEPT ![d.pc] = TRUE] ELSE @]
  IN IF ~s1.endRequest THEN SetLoopTimeout(s1, 5000) ELSE s1

\* __connect: the outcomes of socket.connect are the socket's to choose.
Connect(s) ==
  IF s.sock = "null"
  THEN \* this._socket.once throws a TypeError, which has no code
       {SetLoopTimeout([s EXCEPT !.isConnected = FALSE, !.anyFailure = TRUE], 5000)}
  ELSE LET s1 == [s EXCEPT !.connectHandlers = @ + 1] IN
       IF s.sock = "idle"
       THEN {[s1 EXCEPT !.sock = "connecting", !.wEnded = FALSE]}
       ELSE \* the socket has a connection or is making one: the call fails,
            \* with an 'error' event or, when connected, by throwing EISCONN
            {[s1 EXCEPT !.run = Append(@, ErrItem)]}
            \cup (IF s.sock = "open"
                  THEN {SetLoopTimeout([s1 EXCEPT !.isConnected = TRUE], 1000)}
                  ELSE {})

\* loop(), going on although stop() was called.
loop_IgnoresStop(s) ==
  LET s1 == [s EXCEPT !.loopTimeout = 0] IN
  IF s1.isConnected THEN {DialStart(s1)}
  ELSE Connect(s1)

loop(s) ==
  LET s1 == [s EXCEPT !.loopTimeout = 0] IN
  IF s1.endRequest THEN {s1}
  ELSE IF s1.isConnected THEN {DialStart(s1)}
  ELSE Connect(s1)

\* stop(), forgetting the snapshots as dispose() does.
stop_ClearsSnapshots(s) ==
  [s EXCEPT !.endRequest = TRUE, !.loopTimeout = 0, !.isConnected = FALSE,
            !.cancelled = @ \/ s.loopTimeout # 0,
            !.wEnded = IF s.sock \in {"connecting", "open"} THEN TRUE ELSE @,
            !.info = NULL, !.data = NULL, !.data2 = NULL]

\* stop(), with __disconnect
stop(s) ==
  [s EXCEPT !.endRequest = TRUE, !.loopTimeout = 0, !.isConnected = FALSE,
            !.cancelled = @ \/ s.loopTimeout # 0,
            !.wEnded = IF s.sock \in {"connecting", "open"} THEN TRUE ELSE @]

\* dispose(): the listeners of the exchanges in flight are removed with all
\* the others, so their promises never settle; their 60 s timers stay armed.
dispose(s) ==
  [stop(s) EXCEPT !.connectHandlers = 0, !.dials = <<>>, !.sock = "null",
                  !.orphans = @ + Len(s.dials),
                  !.wEnded = FALSE, !.stream = <<>>, !.stoveIn = <<>>,
                  !.info = NULL, !.data = NULL, !.data2 = NULL, !.queue = <<>>,
                  !.writer = [x \in Slots |-> -1], !.disposed = TRUE]

\* The socket emits 'error' and then 'close': the persistent handlers, and
\* onError of every exchange in flight.
EmitError(s) ==
  LET waiting == {i \in 1..Len(s.dials) : s.dials[i].st = "wait"}
      IsWaiting(d) == d.st = "wait"
  IN [s EXCEPT !.isConnected = FALSE, !.sock = "idle", !.wEnded = FALSE,
               !.stream = <<>>, !.stoveIn = <<>>, !.anyFailure = TRUE,
               !.dials = [i \in 1..Len(@) |->
                            IF i \in waiting THEN [@[i] EXCEPT !.st = "err"] ELSE @[i]],
               !.run = @ \o [i \in 1..Cardinality(waiting) |->
                               DialItem(SelectSeq(s.dials, IsWaiting)[i].cyc)]]

\* onData of each exchange in flight, in listener order, on one chunk.
RECURSIVE EmitData(_, _, _)
EmitData(s, chunk, i) ==
  IF i > Len(s.dials) THEN s
  ELSE LET d == s.dials[i]
           buf == s.buf \o chunk
       IN IF d.st # "wait" THEN EmitData(s, chunk, i + 1)
          ELSE IF HasLine(buf)
          THEN EmitData([s EXCEPT !.buf = <<>>,
                                  !.dials[i] = [d EXCEPT !.st = "ok",
                                                  !.val = _extractData(FirstLine(buf))],
                                  !.run = Append(@, DialItem(d.cyc))],
                        chunk, i + 1)
          ELSE EmitData([s EXCEPT !.buf = buf], chunk, i + 1)

\* The __dial run c leaves the listener order: it continues.
Without(ds, c) == LET Other(d) == d.cyc # c IN SelectSeq(ds, Other)
DialOf(s, c) == CHOOSE d \in {s.dials[i] : i \in 1..Len(s.dials)} : d.cyc = c

\* ------------------------------------------------------------ the actions
Idle == run = <<>>

start(maxFrames) ==
  /\ Idle
  /\ \E r \in loop([Client EXCEPT !.endRequest = FALSE, !.started = TRUE,
                                  !.cancelled = FALSE]) :
       InBounds(r, maxFrames) /\ Become(r)

Stop ==
  /\ Idle
  /\ Become(stop(Client))

Dispose ==
  /\ Idle
  /\ Become(dispose(Client))

\* sendCommand, putting the parameter list at the head of the queue.
sendCommand_Prepends(maxCmds) ==
  /\ Idle
  /\ submitted < maxCmds
  /\ Become([Client EXCEPT !.submitted = @ + 1, !.queue = <<submitted + 1>> \o @])

\* What sendCommand returns: `return true`, whatever the state.
sendCommandReturns == TRUE

sendCommand(maxCmds) ==
  /\ Idle
  /\ submitted < maxCmds
  /\ Become([Client EXCEPT !.submitted = @ + 1, !.queue = Append(@, submitted + 1)])

\* The timer _loopTimeout names fires.
LoopTimer(maxFrames) ==
  /\ Idle
  /\ _loopTimeout # 0
  /\ \E r \in loop(Client) : InBounds(r, maxFrames) /\ Become(r)

\* A loop timer that _loopTimeout no longer names fires.
LeakedTimer(maxFrames) ==
  /\ Idle
  /\ leaked > 0
  /\ \E r \in loop([Client EXCEPT !.leaked = @ - 1]) :
       InBounds(r, maxFrames) /\ Become(r)

\* The connection is established: every 'connect' listener is called.
SocketConnect ==
  /\ Idle
  /\ sock = "connecting"
  /\ Become([Client EXCEPT !.sock = "open", !.stream = <<>>, !.stoveIn = <<>>,
                           !.connectHandlers = 0,
                           !.run = [i \in 1..connectHandlers |-> ConnItem]])

\* connectHandler of __connect
RunConnectHandler(maxFrames) ==
  /\ run # <<>> /\ Head(run).k = "connect"
  /\ \E r \in loop([Client EXCEPT !.isConnected = TRUE, !.run = Tail(@)]) :
       InBounds(r, maxFrames) /\ Become(r)

\* The connection, or the attempt to make it, fails.
SocketError ==
  /\ Idle
  /\ sock \in {"connecting", "open"}
  /\ Become(EmitError(Client))

\* The failure of a socket.connect call on a socket that was not idle.
RunConnectError ==
  /\ run # <<>> /\ Head(run).k = "error"
  /\ Become(EmitError([Client EXCEPT !.run = Tail(@)]))

\* The stove closes the connection: 'end' and 'close'.
SocketClose ==
  /\ Idle
  /\ sock = "open"
  /\ Become([Client EXCEPT !.isConnected = FALSE, !.sock = "idle", !.wEnded = FALSE,
                           !.stream = <<>>, !.stoveIn = <<>>])

\* The stove answers the oldest frame it has, in one segment or in two.
StoveRespond(cuts) ==
  /\ Idle
  /\ sock = "open" /\ stoveIn # <<>>
  /\ \E cut \in {0} \cup cuts :
       LET line == ResponseLine(Head(stoveIn))
           segments == IF cut = 0 THEN <<line>>
                       ELSE <<SubSeq(line, 1, cut), SubSeq(line, cut + 1, Len(line))>>
       IN Become([Client EXCEPT !.stoveIn = Tail(@), !.stream = @ \o segments])

\* The socket reads what has arrived, the first segment or all of them
\* at once: 'data'.
SocketData(wholeLines) ==
  /\ Idle
  /\ sock = "open" /\ stream # <<>>
  /\ \E k \in {1, Len(stream)} :
       /\ wholeLines => k = Len(stream)
       /\ Become(EmitData([Client EXCEPT !.stream = SubSeq(@, k + 1, Len(@))],
                          Flatten(SubSeq(stream, 1, k)), 1))

\* The 60 s timer of an exchange fires.
ExchangeTimeout ==
  /\ Idle
  /\ \E i \in 1..Len(dials) :
       /\ dials[i].st = "wait"
       /\ Become([Client EXCEPT !.dials[i].st = "err", !.anyFailure = TRUE,
                                !.run = Append(@, DialItem(dials[i].cyc))])

\* The 60 s timer of an exchange that was in flight when dispose() was
\* called fires: cleanup() calls this._socket.removeListener, and _socket
\* is null, so the callback throws before it rejects the promise.
OrphanTimeout ==
  /\ Idle
  /\ orphans > 0
  /\ Become([Client EXCEPT !.orphans = @ - 1,
                           !.uncaught = IF sock = "null" THEN TRUE ELSE @])

\* A __dial run continues after its await.
DialContinue(maxFrames) ==
  /\ run # <<>> /\ Head(run).k = "dial"
  /\ LET c == Head(run).cyc
         d == DialOf(Client, c)
         s == [Client EXCEPT !.run = Tail(@), !.dials = Without(@, c)]
         r == IF d.st = "ok" THEN DialResolved(s, d) ELSE DialRejected(s, d)
     IN InBounds(r, maxFrames) /\ Become(r)

Next ==
  \/ start(MaxFrames)
  \/ Stop
  \/ Dispose
  \/ sendCommand(MaxCmds)
  \/ LoopTimer(MaxFrames)
  \/ LeakedTimer(MaxFrames)
  \/ SocketConnect
  \/ RunConnectHandler(MaxFrames)
  \/ SocketError
  \/ RunConnectError
  \/ SocketClose
  \/ StoveRespond(SegmentCuts)
  \/ SocketData(FALSE)
  \/ ExchangeTimeout
  \/ OrphanTimeout
  \/ DialContinue(MaxFrames)

Spec == Init /\ [][Next]_vars

\* The runs of the client before 1.0.1.
Spec0 == Init /\ [][Next0]_vars

\* The runs in which the stove accepts every connection and answers every
\* frame with a whole line, in time, and the client is neither stopped nor
\* disposed of.
NextOk ==
  \/ start(MaxFramesOk)
  \/ sendCommand(MaxCmdsOk)
  \/ LoopTimer(MaxFramesOk)
  \/ LeakedTimer(MaxFramesOk)
  \/ SocketConnect
  \/ RunConnectHandler(MaxFramesOk)
  \/ RunConnectError
  \/ StoveRespond({})
  \/ SocketData(TRUE)
  \/ DialContinue(MaxFramesOk)

SpecOk == Init /\ [][NextOk]_vars

\* The runs of a client that is started once and never stopped or disposed
\* of, in which the connection fails at most once, at any moment, and the
\* stove otherwise accepts every connection and answers every frame in time.
\* Timers fire, the socket delivers its events and promise continuations
\* run: these steps are fair.  The calls of the API are not.
StartOnce == ~started /\ start(MaxFramesLive)
FailOnce == ~anyFailure /\ SocketError

NextLive ==
  \/ StartOnce
  \/ sendCommand(MaxCmdsLive)
  \/ FailOnce
  \/ LoopTimer(MaxFramesLive)
  \/ SocketConnect
  \/ RunConnectHandler(MaxFramesLive)
  \/ StoveRespond({})
  \/ SocketData(TRUE)
  \/ DialContinue(MaxFramesLive)

SpecLive ==
  /\ Init /\ [][NextLive]_vars
  /\ WF_vars(LoopTimer(MaxFramesLive))
  /\ WF_vars(SocketConnect)
  /\ WF_vars(RunConnectHandler(MaxFramesLive))
  /\ WF_vars(StoveRespond({}))
  /\ WF_vars(SocketData(TRUE))
  /\ WF_vars(DialContinue(MaxFramesLive))

\* A Request is constructed, and its getRequest is called: the client is
\* left alone.
NewRequest ==
  /\ theRequest = NoRequest
  /\ \E c \in Commands, m \in Modes, P \in ParameterLists, id \in Ids :
       theRequest' = Request(c, m, P, id)
  /\ gotRequest' = <<>>
  /\ UNCHANGED << clientVars, reading, client0 >>

GetRequest ==
  /\ theRequest # NoRequest
  /\ Len(gotRequest) < MaxCalls
  /\ gotRequest' = Append(gotRequest, getRequest(theRequest))
  /\ UNCHANGED << clientVars, theRequest, reading, client0 >>

NextReq == NewRequest \/ GetRequest

SpecReq == Init /\ [][NextReq]_vars

\* ------------------------------------------------- the Hottoh accessors
\* StoveRegisters.INDEX_FW and INDEX_STOVE_STATE, as the example prints them.
INDEX_FW == 1
INDEX_STOVE_STATE == 5

Unavailable(what) == [kind |-> what, value |-> <<>>]
\* snapshot[index]: undefined when the snapshot has fewer fields
FieldAt(snapshot, index) ==
  IF index + 1 <= Len(snapshot.fields)
  THEN [kind |-> "value", value |-> snapshot.fields[index + 1]]
  ELSE Unavailable("undefined")

_getFirmwareVersion ==
  IF ~_info.present THEN Unavailable("null") ELSE FieldAt(_info, INDEX_FW)

isConnected == __isConnected

\* ---- numbers: NaN, or the quotient num / den of an integer and a power of ten
NaN == [nan |-> TRUE, num |-> 0, den |-> 1]
Num(n) == [nan |-> FALSE, num |-> n, den |-> 1]

IsDigit(ch) == ch \in 48..57
IsSpace(ch) == ch = 32
\* The string without its leading white space.
RECURSIVE TrimStart(_)
TrimStart(s) == IF s # <<>> /\ IsSpace(Head(s)) THEN TrimStart(Tail(s)) ELSE s
\* The longest prefix of s that consists of digits.
RECURSIVE LeadingDigits(_)
LeadingDigits(s) ==
  IF s # <<>> /\ IsDigit(Head(s)) THEN <<Head(s)>> \o LeadingDigits(Tail(s)) ELSE <<>>
RECURSIVE DigitsValue(_)
DigitsValue(ds) ==
  IF ds = <<>> THEN 0
  ELSE 10 * DigitsValue(SubSeq(ds, 1, Len(ds) - 1)) + (ds[Len(ds)] - 48)
IsSigned(s) == s # <<>> /\ Head(s) \in {43, 45}
Unsigned(s) == IF IsSigned(s) THEN Tail(s) ELSE s
Sign(s) == IF s # <<>> /\ Head(s) = 45 THEN -1 ELSE 1

\* parseInt(field), on text without a radix prefix; parseInt(undefined) is NaN
parseInt(field) ==
  IF field.kind # "value" THEN NaN
  ELSE IF LeadingDigits(Unsigned(TrimStart(field.value))) = <<>> THEN NaN
  ELSE Num(Sign(TrimStart(field.value))
           * DigitsValue(LeadingDigits(Unsigned(TrimStart(field.value)))))

\* x / 10
DividedBy10(x) == IF x.nan THEN NaN ELSE [x EXCEPT !.den = 10 * @]

\* n.toString(), n a non-negative integer
RECURSIVE Decimal(_)
Decimal(n) == IF n < 10 THEN <<48 + n>> ELSE Decimal(n \div 10) \o <<48 + (n % 10)>>
Abs(n) == IF n < 0 THEN -n ELSE n
\* x.toString(), x an integer or a number of tenths: the shortest decimal
\* text that reads back as x
NumberToString(x) ==
  IF x.nan THEN <<78, 97, 78>>
  ELSE (IF x.num < 0 THEN <<45>> ELSE <<>>)
       \o Decimal(Abs(x.num) \div x.den)
       \o (IF Abs(x.num) % x.den = 0 THEN <<>>
           ELSE <<46>> \o Decimal(Abs(x.num) % x.den))

RECURSIVE Pow10(_)
Pow10(k) == IF k = 0 THEN 1 ELSE 10 * Pow10(k - 1)
\* The digits after the decimal point of unsigned text, if it has one.
Fraction(u) ==
  IF Len(LeadingDigits(u)) < Len(u) /\ u[Len(LeadingDigits(u)) + 1] = 46
  THEN LeadingDigits(SubSeq(u, Len(LeadingDigits(u)) + 2, Len(u)))
  ELSE <<>>
\* parseFloat(v), on text without an exponent
parseFloat(v) ==
  IF LeadingDigits(Unsigned(TrimStart(v))) = <<>> /\ Fraction(Unsigned(TrimStart(v))) = <<>>
  THEN NaN
  ELSE [nan |-> FALSE,
        num |-> Sign(TrimStart(v))
                * (DigitsValue(LeadingDigits(Unsigned(TrimStart(v))))
                     * Pow10(Len(Fraction(Unsigned(TrimStart(v)))))
                   + DigitsValue(Fraction(Unsigned(TrimStart(v))))),
        den |-> Pow10(Len(Fraction(Unsigned(TrimStart(v)))))]

\* ---- the register indices, as the example script prints them
StoveRegisters ==
  [ INDEX_STOVE_TYPE |-> 4,
    INDEX_STOVE_ON |-> 6, INDEX_ECO_MODE |-> 7, INDEX_TIMER_ON |-> 8,
    INDEX_AMBIENT_T1 |-> 9, INDEX_AMBIENT_T1_SET |-> 10,
    INDEX_AMBIENT_T1_SET_MAX |-> 11, INDEX_AMBIENT_T1_SET_MIN |-> 12,
    INDEX_AMBIENT_T2 |-> 13, INDEX_AMBIENT_T2_SET |-> 14,
    INDEX_AMBIENT_T2_SET_MAX |-> 15, INDEX_AMBIENT_T2_SET_MIN |-> 16,
    INDEX_ROOM_TEMP_3 |-> 17, INDEX_ROOM_TEMP_3_SET |-> 18,
    INDEX_ROOM_TEMP_3_SET_MAX |-> 19, INDEX_ROOM_TEMP_3_SET_MIN |-> 20,
    INDEX_WATER |-> 17, INDEX_WATER_SET |-> 18,
    INDEX_WATER_SET_MAX |-> 20, INDEX_WATER_SET_MIN |-> 19,
    INDEX_SMOKE_T |-> 21 ]

null == [kind |-> "null"]
String(v) == [kind |-> "string", value |-> v]
Number(x) == [kind |-> "number", value |-> x]

\* The accessor body, without the division.
Tenths_NotDivided(snapshot, index) ==
  IF ~snapshot.present THEN null
  ELSE String(NumberToString(parseInt(FieldAt(snapshot, index))))

\* (parseInt(snapshot[index]) / 10).toString(), null without the snapshot
Tenths(snapshot, index) ==
  IF ~snapshot.present THEN null
  ELSE String(NumberToString(DividedBy10(parseInt(FieldAt(snapshot, index)))))

\* The temperature accessors, by name.
TemperatureAccessors ==
  [ _getTemperatureRoom1 |-> Tenths(_data, StoveRegisters.INDEX_AMBIENT_T1),
    _getSetTemperatureRoom1 |-> Tenths(_data, StoveRegisters.INDEX_AMBIENT_T1_SET),
    _getSetMaxTemperatureRoom1 |-> Tenths(_data, StoveRegisters.INDEX_AMBIENT_T1_SET_MAX),
    _getSetMinTemperatureRoom1 |-> Tenths(_data, StoveRegisters.INDEX_AMBIENT_T1_SET_MIN),
    _getTemperatureRoom2 |-> Tenths(_data, StoveRegisters.INDEX_AMBIENT_T2),
    _getSetTemperatureRoom2 |-> Tenths(_data, StoveRegisters.INDEX_AMBIENT_T2_SET),
    _getSetMaxTemperatureRoom2 |-> Tenths(_data, StoveRegisters.INDEX_AMBIENT_T2_SET_MAX),
    _getSetMinTemperatureRoom2 |-> Tenths(_data, StoveRegisters.INDEX_AMBIENT_T2_SET_MIN),
    _getTemperatureRoom3 |-> Tenths(_data2, StoveRegisters.INDEX_ROOM_TEMP_3),
    _getSetTemperatureRoom3 |-> Tenths(_data2, StoveRegisters.INDEX_ROOM_TEMP_3_SET),
    _getSetMaxTemperatureRoom3 |-> Tenths(_data2, StoveRegisters.INDEX_ROOM_TEMP_3_SET_MAX),
    _getSetMinTemperatureRoom3 |-> Tenths(_data2, StoveRegisters.INDEX_ROOM_TEMP_3_SET_MIN),
    _getTemperatureWater |-> Tenths(_data, StoveRegisters.INDEX_WATER),
    _getSetTemperatureWater |-> Tenths(_data, StoveRegisters.INDEX_WATER_SET),
    _getSetMaxTemperatureWater |-> Tenths(_data, StoveRegisters.INDEX_WATER_SET_MAX),
    _getSetMinTemperatureWater |-> Tenths(_data, StoveRegisters.INDEX_WATER_SET_MIN),
    _getSmokeTemperature |-> Tenths(_data, StoveRegisters.INDEX_SMOKE_T) ]

\* v !== null ? parseFloat(v) : null
Float(v) == IF v.kind = "null" THEN null ELSE Number(parseFloat(v.value))

\* The temperature getters, by name.
TemperatureGetters ==
  [ getSmokeTemperature |-> Float(TemperatureAccessors._getSmokeTemperature),
    getWaterTemperature |-> Float(TemperatureAccessors._getTemperatureWater),
    getSetWaterTemperature |-> Float(TemperatureAccessors._getSetTemperatureWater),
    getSetMinWaterTemperature |-> Float(TemperatureAccessors._getSetMinTemperatureWater),
    getSetMaxWaterTemperature |-> Float(TemperatureAccessors._getSetMaxTemperatureWater),
    getTemperatureRoom1 |-> Float(TemperatureAccessors._getTemperatureRoom1),
    getSetTemperatureRoom1 |-> Float(TemperatureAccessors._getSetTemperatureRoom1),
    getSetMinTemperatureRoom1 |-> Float(TemperatureAccessors._getSetMinTemperatureRoom1),
    getSetMaxTemperatureRoom1 |-> Float(TemperatureAccessors._getSetMaxTemperatureRoom1),
    getTemperatureRoom2 |-> Float(TemperatureAccessors._getTemperatureRoom2),
    getSetTemperatureRoom2 |-> Float(TemperatureAccessors._getSetTemperatureRoom2),
    getSetMinTemperatureRoom2 |-> Float(TemperatureAccessors._getSetMinTemperatureRoom2),
    getSetMaxTemperatureRoom2 |-> Float(TemperatureAccessors._getSetMaxTemperatureRoom2),
    getTemperatureRoom3 |-> Float(TemperatureAccessors._getTemperatureRoom3),
    getSetTemperatureRoom3 |-> Float(TemperatureAccessors._getSetTemperatureRoom3),
    getSetMinTemperatureRoom3 |-> Float(TemperatureAccessors._getSetMinTemperatureRoom3),
    getSetMaxTemperatureRoom3 |-> Float(TemperatureAccessors._getSetMaxTemperatureRoom3) ]

\* ---- the stove state and the action
\* The codes of the lifecycle states: one code for each state of the
\* protocol, numbered in the order of the firmware's state machine.
StoveState ==
  [ STATUS_OFF |-> 0, STATUS_STARTING_1 |-> 1, STATUS_STARTING_2 |-> 2,
    STATUS_STARTING_3 |-> 3, STATUS_STARTING_4 |-> 4, STATUS_STARTING_5 |-> 5,
    STATUS_STARTING_6 |-> 6, STATUS_STARTING_7 |-> 7, STATUS_POWER |-> 8,
    STATUS_STOPPING_1 |-> 9, STATUS_STOPPING_2 |-> 10, STATUS_ECO_STOP_1 |-> 11,
    STATUS_ECO_STOP_2 |-> 12, STATUS_ECO_STOP_3 |-> 13, STATUS_LOW_PELLET |-> 14,
    STATUS_END_PELLET |-> 15, STATUS_BLACK_OUT |-> 16,
    STATUS_INGNITION_FAILED |-> 17, STATUS_ANTI_FREEZE |-> 18,
    STATUS_COVER_OPEN |-> 19, STATUS_NO_PELLET |-> 20 ]

\* A string literal of the code, as against the text of a field: the
\* fields hold digits, and no field is equal to a literal.
Literal(name) == [kind |-> "literal", value |-> name]

\* The switch, with its two waiting states under one name.
StoveStateCases_OneWaiting ==
  << <<StoveState.STATUS_OFF, "switched_off">>,
     <<StoveState.STATUS_STARTING_1, "starting_1_check">>,
     <<StoveState.STATUS_STARTING_2, "starting_2_clean_all">>,
     <<StoveState.STATUS_STARTING_3, "starting_3_loading">>,
     <<StoveState.STATUS_STARTING_4, "starting_4_waiting">>,
     <<StoveState.STATUS_STARTING_5, "starting_4_waiting">>,
     <<StoveState.STATUS_STARTING_6, "starting_6_ignition">>,
     <<StoveState.STATUS_STARTING_7, "starting_7_stabilization">>,
     <<StoveState.STATUS_POWER, "power">>,
     <<StoveState.STATUS_STOPPING_1, "stopping_1_wait_standby">>,
     <<StoveState.STATUS_STOPPING_2, "stopping_2_wait_standby">>,
     <<StoveState.STATUS_ECO_STOP_1, "eco_stop_1_standby">>,
     <<StoveState.STATUS_ECO_STOP_2, "eco_stop_2">>,
     <<StoveState.STATUS_ECO_STOP_3, "eco_stop_3">>,
     <<StoveState.STATUS_LOW_PELLET, "low_pellet">>,
     <<StoveState.STATUS_END_PELLET, "end_pellet">>,
     <<StoveState.STATUS_BLACK_OUT, "black_out">>,
     <<StoveState.STATUS_INGNITION_FAILED, "error_ignition_failed">>,
     <<StoveState.STATUS_ANTI_FREEZE, "anti_freeze">>,
     <<StoveState.STATUS_COVER_OPEN, "error_cover_open">>,
     <<StoveState.STATUS_NO_PELLET, "error_no_pellet">> >>

\* The cases of the switch of _getStoveState, in their order.
StoveStateCases ==
  << <<StoveState.STATUS_OFF, "switched_off">>,
     <<StoveState.STATUS_STARTING_1, "starting_1_check">>,
     <<StoveState.STATUS_STARTING_2, "starting_2_clean_all">>,
     <<StoveState.STATUS_STARTING_3, "starting_3_loading">>,
     <<StoveState.STATUS_STARTING_4, "starting_4_waiting">>,
     <<StoveState.STATUS_STARTING_5, "starting_5_waiting">>,
     <<StoveState.STATUS_STARTING_6, "starting_6_ignition">>,
     <<StoveState.STATUS_STARTING_7, "starting_7_stabilization">>,
     <<StoveState.STATUS_POWER, "power">>,
     <<StoveState.STATUS_STOPPING_1, "stopping_1_wait_standby">>,
     <<StoveState.STATUS_STOPPING_2, "stopping_2_wait_standby">>,
     <<StoveState.STATUS_ECO_STOP_1, "eco_stop_1_standby">>,
     <<StoveState.STATUS_ECO_STOP_2, "eco_stop_2">>,
     <<StoveState.STATUS_ECO_STOP_3, "eco_stop_3">>,
     <<StoveState.STATUS_LOW_PELLET, "low_pellet">>,
     <<StoveState.STATUS_END_PELLET, "end_pellet">>,
     <<StoveState.STATUS_BLACK_OUT, "black_out">>,
     <<StoveState.STATUS_INGNITION_FAILED, "error_ignition_failed">>,
     <<StoveState.STATUS_ANTI_FREEZE, "anti_freeze">>,
     <<StoveState.STATUS_COVER_OPEN, "error_cover_open">>,
     <<StoveState.STATUS_NO_PELLET, "error_no_pellet">> >>

\* switch (state): the first case that is equal to state, or the default.
Switch(state, field) ==
  IF state.nan \/ \A i \in 1..Len(StoveStateCases) : StoveStateCases[i][1] # state.num
  THEN field
  ELSE Literal(StoveStateCases[
         CHOOSE i \in 1..Len(StoveStateCases) :
            /\ StoveStateCases[i][1] = state.num
            /\ \A j \in 1..(i - 1) : StoveStateCases[j][1] # state.num ][2])

_getStoveState ==
  IF ~_data.present THEN Unavailable("not_connected")
  ELSE Switch(parseInt(FieldAt(_data, INDEX_STOVE_STATE)),
              FieldAt(_data, INDEX_STOVE_STATE))

\* The lists of getAction and what it returns for a state in each.
ActionCases ==
  << <<{"switched_off", "black_out", "eco_stop_2", "eco_stop_3"}, "off">>,
     <<{"starting_1_check"}, "check">>,
     <<{"starting_2_clean_all"}, "clean_all">>,
     <<{"starting_3_loading"}, "loading">>,
     <<{"starting_4_waiting", "starting_5_waiting"}, "waiting">>,
     <<{"starting_6_ignition"}, "ignition">>,
     <<{"starting_7_stabilization"}, "stabilization">>,
     <<{"power"}, "heating">>,
     <<{"stopping_1_wait_standby", "stopping_2_wait_standby"}, "stopping">>,
     <<{"eco_stop_1_standby", "standby"}, "idle">> >>

\* getAction: a state that is in no list is returned as it is.
getAction ==
  IF _getStoveState.kind = "literal"
     /\ \E i \in 1..Len(ActionCases) : _getStoveState.value \in ActionCases[i][1]
  THEN Literal(ActionCases[
         CHOOSE i \in 1..Len(ActionCases) :
            /\ _getStoveState.value \in ActionCases[i][1]
            /\ \A j \in 1..(i - 1) : _getStoveState.value \notin ActionCases[j][1] ][2])
  ELSE _getStoveState

\* ---- the on/off registers
Bool(b) == [kind |-> "boolean", value |-> b]
\* _getStoveIsOn, _getEcoMode, _getChronoMode: field === "1" ? "on" : "off"
OnOff(index) ==
  IF ~_data.present THEN null
  ELSE IF FieldAt(_data, index) = [kind |-> "value", value |-> <<49>>]
       THEN Literal("on") ELSE Literal("off")
\* The boolean getters, by name: accessor === "on"
BooleanGetters ==
  [ getIsOn |-> Bool(OnOff(StoveRegisters.INDEX_STOVE_ON) = Literal("on")),
    getEcoMode |-> Bool(OnOff(StoveRegisters.INDEX_ECO_MODE) = Literal("on")),
    getChronoMode |-> Bool(OnOff(StoveRegisters.INDEX_TIMER_ON) = Literal("on")) ]

\* ---- the stove type and its bits
_getStoveType ==
  IF ~_data.present THEN null
  ELSE Number(parseInt(FieldAt(_data, StoveRegisters.INDEX_STOVE_TYPE)))

\* ToInt32, as >> applies it to its left operand: NaN becomes 0, and an
\* integer of 32 bits, as all integers here are, is left as it is.
ToInt32(x) == IF x.nan THEN 0 ELSE x.num
\* ((type >> i) & 1) === 1
BitOf(type, i) == ((ToInt32(type) \div (2 ^ i)) % 2) = 1

\* The 16 booleans, bit 15 first; bits[j] of the code is At(bits, j).
_getStoveTypeBitArray ==
  IF _getStoveType.kind = "null" THEN [j \in 1..16 |-> FALSE]
  ELSE [j \in 1..16 |-> BitOf(_getStoveType.value, 16 - j)]
At(bits, j) == bits[j + 1]

\* The capability flags, by name.
CapabilityFlags ==
  [ isBoilerEnabled |-> At(_getStoveTypeBitArray, 6),
    isDomesticHotWaterEnabled |-> At(_getStoveTypeBitArray, 5),
    isTempRoom1Enabled |-> At(_getStoveTypeBitArray, 0),
    isTempRoom2Enabled |-> At(_getStoveTypeBitArray, 7),
    isTempRoom3Enabled |-> At(_getStoveTypeBitArray, 8),
    isTempWaterEnabled |-> At(_getStoveTypeBitArray, 1),
    isPumpEnabled |-> At(_getStoveTypeBitArray, 11),
    isFlowSwitchEnabled |-> At(_getStoveTypeBitArray, 10),
    isPufferEnabled |-> At(_getStoveTypeBitArray, 9),
    isBoilerTempEnabled |-> At(_getStoveTypeBitArray, 4),
    isDhwEnabled |-> At(_getStoveTypeBitArray, 3),
    isAirEx1Enabled |-> At(_getStoveTypeBitArray, 12),
    isAirEx2Enabled |-> At(_getStoveTypeBitArray, 13),
    isAirEx3Enabled |-> At(_getStoveTypeBitArray, 14),
    isGenericPumpEnabled |-> At(_getStoveTypeBitArray, 15) ]
getFanNumber ==
  (IF At(_getStoveTypeBitArray, 2) THEN 2 ELSE 0)
  + (IF At(_getStoveTypeBitArray, 3) THEN 1 ELSE 0)

\* ---- the accessors are called on snapshots the stove may have sent
\* The fields a temperature register may hold.
TemperatureFields ==
  { Text(<<"2", "1", "5">>), Text(<<"0">>), Text(<<"5">>), Text(<<"-", "5">>),
    Text(<<"2", "0", "0">>), Text(<<"1", "0", "0", "5">>), Text(<<"0", "7">>),
    <<>> }
\* The stove types: none, one or two bits of the sixteen, all, and a
\* seventeenth bit.
StoveTypes ==
  {0, 65535, 65536} \cup {2 ^ a : a \in 0..15}
  \cup {2 ^ a + 2 ^ b : a, b \in 0..15}
\* The stove state fields: every code, and numbers that are no code.
MaxStateCode == 25
StateFields ==
  {Decimal(c) : c \in 0..MaxStateCode} \cup {Text(<<"1", "0", "0">>), Text(<<"0", "8">>)}
NFields == 22
\* A response of NFields fields: `other` at index k, `base` elsewhere.
Fields(base, k, other) == [i \in 1..NFields |-> IF i = k + 1 THEN other ELSE base]
SnapshotPairs ==
  {<<NULL, NULL>>}
  \cup UNION {{ <<Snapshot(Fields(b, k, o)), NULL>>,
                <<NULL, Snapshot(Fields(b, k, o))>>,
                <<Snapshot(Fields(b, k, o)), Snapshot(Fields(o, k, b))>> } :
              b \in TemperatureFields, o \in TemperatureFields, k \in 0..(NFields - 1)}
  \cup {<<Snapshot(Fields(Text(<<"0">>), StoveRegisters.INDEX_STOVE_TYPE, Decimal(ty))),
          NULL>> : ty \in StoveTypes}
  \cup {<<Snapshot(Fields(Text(<<"0">>), INDEX_STOVE_STATE, f)), NULL>> : f \in StateFields}
  \cup {<<Snapshot(Fields(Text(<<"0">>), k, Text(<<"1">>))), NULL>> :
          k \in {StoveRegisters.INDEX_STOVE_ON, StoveRegisters.INDEX_ECO_MODE,
                 StoveRegisters.INDEX_TIMER_ON}}

\* The client as constructed, with snapshots as two fetches stored them.
InitHottoh ==
  /\ \E pair \in SnapshotPairs : _data = pair[1] /\ _data2 = pair[2]
  /\ _info = NULL
  /\ _writeParameters = <<>>
  /\ __isConnected = FALSE /\ __endRequest = FALSE
  /\ _responseBuffer = <<>>
  /\ _loopTimeout = 0 /\ leaked = 0
  /\ connectHandlers = 0
  /\ sock = "idle" /\ wEnded = FALSE
  /\ dials = <<>> /\ run = <<>>
  /\ stoveIn = <<>> /\ stream = <<>>
  /\ nframes = 0 /\ ncycles = 0 /\ lastFrame = NoFrame
  /\ submitted = 0
  /\ sent = [k \in 1..(MaxCmds + MaxCmdsOk) |-> 0]
  /\ acked = [k \in 1..(MaxCmds + MaxCmdsOk) |-> FALSE]
  /\ writer = [x \in Slots |-> 0]
  /\ failedAt = [x \in Slots |-> FALSE]
  /\ anyFailure = FALSE
  /\ disposed = FALSE
  /\ started = FALSE
  /\ cancelled = FALSE
  /\ orphans = 0 /\ uncaught = FALSE
  /\ theRequest = NoRequest /\ gotRequest = <<>>
  /\ reading = NoReading
  /\ client0 = Constructed0

\* The capability accessors are called, one after the other.
ReadCapabilities ==
  /\ reading' = [ what |-> "capabilities",
                  flags |-> {f \in DOMAIN CapabilityFlags : CapabilityFlags[f]},
                  values |-> [f \in DOMAIN CapabilityFlags |-> Bool(CapabilityFlags[f])],
                  fan |-> getFanNumber ]
  /\ UNCHANGED << clientVars, theRequest, gotRequest, client0 >>

\* The temperature getters are called, one after the other.
ReadTemperatures ==
  /\ reading' = [what |-> "temperatures", values |-> TemperatureGetters]
  /\ UNCHANGED << clientVars, theRequest, gotRequest, client0 >>

\* _getStoveState and getAction are called.
ReadState ==
  /\ reading' = [what |-> "state", state |-> _getStoveState, action |-> getAction]
  /\ UNCHANGED << clientVars, theRequest, gotRequest, client0 >>

\* getIsOn, getEcoMode and getChronoMode are called.
ReadBooleans ==
  /\ reading' = [what |-> "booleans", values |-> BooleanGetters]
  /\ UNCHANGED << clientVars, theRequest, gotRequest, client0 >>

NextHottoh == ReadCapabilities \/ ReadTemperatures \/ ReadState \/ ReadBooleans

SpecHottoh == InitHottoh /\ [][NextHottoh]_vars

\* ------------------------------------------------------ claims: helpers
Waiting == {i \in 1..Len(dials) : dials[i].st = "wait"}
InQueue(k) == \E i \in 1..Len(_writeParameters) : _writeParameters[i] = k
Pending == leaked + (IF _loopTimeout # 0 THEN 1 ELSE 0)
SlotValue(x) == IF x = "info" THEN _info ELSE IF x = "data" THEN _data ELSE _data2
SlotsFrom(x) == IF x = "info" THEN Slots ELSE IF x = "data" THEN {"data", "data2"}
                ELSE {"data2"}
\* The step is the continuation of a __dial run whose await ended as `how`.
Continues(how) ==
  /\ run # <<>> /\ Head(run).k = "dial"
  /\ DialOf(Client, Head(run).cyc).st = how
Continued == DialOf(Client, Head(run).cyc)
\* What an exchange that is answered by the line of frame n resolves with.
ResponseFields(n) ==
  _extractData(SubSeq(ResponseLine(n), 1, Len(ResponseLine(n)) - 1))
Frame(c, command, mode, parameters) ==
  [seq |-> nframes + 1, cyc |-> c, command |-> command, mode |-> mode,
   parameters |-> parameters]

\* --------------------------------------------------------------- claims

\* C1: at most one request/response exchange is outstanding at any time,
\* whatever start(), stop(), sendCommand() calls and socket events occur.
C1_OneExchange == Cardinality(Waiting) <= 1

\* C2: a poll cycle writes its read frames in the order INF [''], DAT ['0'],
\* DAT ['2']: a cycle begins by writing INF, writes DAT 0 only on continuing
\* after the INF response and DAT 2 only on continuing after the DAT 0
\* response, and on continuing stores the response in _info, _data and
\* _data2 respectively; no read frame is written in any other step.
C2_ReadOrder ==
  [][ /\ (nframes' # nframes /\ ~Continues("ok")) =>
           /\ ncycles' = ncycles + 1
           /\ lastFrame' = Frame(ncycles', "INF", "R", <<"">>)
      /\ Continues("ok") =>
           LET d == Continued IN
           /\ d.pc = "info" => /\ _info' = Snapshot(d.val)
                               /\ lastFrame' = Frame(d.cyc, "DAT", "R", <<"0">>)
           /\ d.pc = "data" => /\ _data' = Snapshot(d.val)
                               /\ lastFrame' = Frame(d.cyc, "DAT", "R", <<"2">>)
           /\ d.pc = "data2" => /\ _data2' = Snapshot(d.val)
                                /\ (nframes' # nframes => lastFrame'.mode = "W")
           /\ d.pc = "write" => (nframes' # nframes => lastFrame'.mode = "W")
      /\ Continues("err") => nframes' = nframes
    ]_vars

\* A cycle has stored its three responses, each the answer to its own frame.
C2_Witness ==
  /\ _info.present /\ _data.present /\ _data2.present
  /\ _info.fields = ResponseFields(1)
  /\ _data.fields = ResponseFields(2)
  /\ _data2.fields = ResponseFields(3)

\* C3: queued commands are transmitted in submission order: a write frame for
\* a later entry is written only after a write exchange for every earlier
\* entry has completed.
C3_SubmissionOrder ==
  \A a, b \in 1..submitted : (a < b /\ sent[b] > 0) => acked[a]

\* C4: an entry leaves the command queue only in the step that continues a
\* write exchange for that same entry which resolved; and when a write
\* exchange is rejected its entry is still the head of the queue.
C4_RemovedAfterOwnExchange ==
  [][ /\ \A k \in 1..submitted :
           (InQueue(k) /\ ~InQueue(k)') =>
              /\ Continues("ok")
              /\ Continued.pc = "write" /\ Continued.param = k
      /\ (Continues("err") /\ Continued.pc = "write") =>
           (_writeParameters # <<>> /\ Head(_writeParameters) = Continued.param)
    ]_vars

\* C5: while dispose() has not been called, every parameter list passed to
\* sendCommand() is still in the queue or a write exchange for it completed.
C5_NeverDropped ==
  ~disposed => \A k \in 1..submitted : InQueue(k) \/ acked[k]

\* C6: while connects and exchanges all succeed, no command is written twice,
\* a command that left the queue was written exactly once, and no WRITE
\* frame is written while nothing was ever queued.
C6_ExactlyOnce ==
  ~anyFailure =>
     /\ \A k \in 1..submitted : /\ sent[k] <= 1
                                /\ ~InQueue(k) => sent[k] = 1
     /\ submitted = 0 => lastFrame.mode # "W"

Rejects ==
  \E i \in 1..Len(dials), j \in 1..Len(dials') :
     dials[i].cyc = dials'[j].cyc /\ dials[i].st = "wait" /\ dials'[j].st = "err"

\* C8: a fetch that fails stores nothing: the step that rejects an exchange
\* and the catch block leave the three slots as they are, and when the catch
\* block of a cycle whose fetch of a slot failed runs, that cycle has stored
\* neither this slot nor a later one, each of which holds the value it had
\* when the cycle began if nothing else stored it since; a slot only ever
\* changes to the whole response of a resolved exchange for it, or to null
\* in dispose().
C8_FailedFetchKeepsSlots ==
  [][ /\ (Rejects \/ Continues("err")) => UNCHANGED <<_info, _data, _data2>>
      /\ (Continues("err") /\ Continued.pc \in Slots) =>
           \A y \in SlotsFrom(Continued.pc) :
              /\ writer[y] # Continued.cyc
              /\ writer[y] = Continued.preW[y] => SlotValue(y) = Continued.pre[y]
      /\ \A x \in Slots :
           SlotValue(x)' # SlotValue(x) =>
              \/ /\ Continues("ok") /\ Continued.pc = x
                 /\ SlotValue(x)' = Snapshot(Continued.val)
              \/ disposed' /\ SlotValue(x)' = NULL
    ]_vars

\* The fetch of a slot failed and the slot holds an earlier snapshot.
C8_Witness ==
  \E x \in Slots : failedAt[x] /\ SlotValue(x).present /\ run = <<>>

\* C9, as claimed: after a cycle in which the fetch of a slot failed, the
\* slot is null and its accessors return null / "not_connected".
C9_FailedSlotIsNull ==
  /\ \A x \in Slots : failedAt[x] => SlotValue(x) = NULL
  /\ failedAt["info"] => _getFirmwareVersion = Unavailable("null")
  /\ failedAt["data"] => _getStoveState = Unavailable("not_connected")

\* C9, amended: the failure of a fetch leaves the slot and what its accessors
\* return as they were, and isConnected() is false after the catch block; a
\* slot is null, and its accessors return null / "not_connected", exactly
\* when no fetch of it has succeeded since construction or dispose().
C9_FailedSlotKeepsSnapshot ==
  [][ /\ (Continues("err") /\ Continued.pc \in Slots) =>
           /\ \A x \in Slots : x = Continued.pc => SlotValue(x)' = SlotValue(x)
           /\ _getFirmwareVersion' = _getFirmwareVersion
           /\ _getStoveState' = _getStoveState
           /\ ~isConnected'
      /\ \A x \in Slots : (SlotValue(x)' = NULL) <=> (writer'[x] <= 0)
      /\ (_getFirmwareVersion' = Unavailable("null")) <=> (_info' = NULL)
      /\ (_getStoveState' = Unavailable("not_connected")) <=> (_data' = NULL)
    ]_vars

\* The latest fetch of _info failed, and _getFirmwareVersion still returns
\* the firmware field of the earlier snapshot.
C9_Witness ==
  /\ failedAt["info"] /\ _info.present /\ ~isConnected /\ run = <<>>
  /\ _getFirmwareVersion.kind = "value"

\* C10: no snapshot contains bytes of two different responses: the data
\* characters of a snapshot all come from the line of one frame.
C10_NoMixedResponses ==
  \A x \in Slots :
     \E n \in 0..nframes :
        \A i \in 1..Len(SlotValue(x).fields) :
           \A j \in 1..Len(SlotValue(x).fields[i]) : SlotValue(x).fields[i][j] = n

\* A step in which a connection attempt ends in failure: the attempt in
\* progress fails, or start() is called on a client without a socket and
\* __connect catches the throw.
ConnectFails ==
  \/ sock = "connecting" /\ sock' = "idle"
  \/ sock = "null" /\ __endRequest /\ ~__endRequest'

\* C11: when a connection attempt of a client that is not stopped fails,
\* by a throw of socket.connect or by an 'error' event of the socket,
\* isConnected() is false afterwards and one loop timer of 5000 ms is pending.
C11_FailedConnectRetries ==
  [][ (ConnectFails /\ ~__endRequest') =>
         /\ ~isConnected'
         /\ _loopTimeout' = 5000
    ]_vars

\* C12: a started client that is not stopped always has something in
\* progress that leads to another connection attempt or poll cycle: an
\* exchange waiting for its response or timeout, a connection attempt, a
\* callback about to run, or a pending loop timer.
C12_NoPermanentFailure ==
  (started /\ ~__endRequest) =>
     \/ Waiting # {}
     \/ sock = "connecting"
     \/ run # <<>>
     \/ Pending > 0

\* The __dial run that continues in this step has ended after the step.
Ends == \A i \in 1..Len(dials') : dials'[i].cyc # Continued.cyc

\* C13: a cycle whose exchange resolved ends only when the queue is empty
\* (or stop() was called); when it ends and stop() was not called it
\* schedules exactly one loop timer, of 1000 ms; as long as it goes on with
\* a fetch or with the drain it schedules none.
C13_NextCycleAfter1s ==
  [][ Continues("ok") =>
         /\ (Ends /\ ~__endRequest) =>
               /\ _writeParameters' = <<>>
               /\ _loopTimeout' = 1000
               /\ Pending' = Pending + 1
         /\ (Ends /\ __endRequest) => Pending' = Pending
         /\ ~Ends => Pending' = Pending
    ]_vars

\* A cycle made its three fetches and wrote the queued command, nothing
\* failed, and the one timer of the next cycle is pending.
C13_Witness ==
  /\ ~anyFailure /\ ~__endRequest
  /\ _info.present /\ _data.present /\ _data2.present
  /\ acked[1] /\ _writeParameters = <<>>
  /\ dials = <<>> /\ run = <<>>
  /\ _loopTimeout = 1000 /\ Pending = 1

C15_StopCancelsRetry ==
  [][ /\ (__endRequest' /\ ~__endRequest /\ _loopTimeout # 0) =>
           Pending' = Pending - 1
      /\ __endRequest' => _loopTimeout' = 0
      /\ (__endRequest /\ __endRequest') =>
           /\ connectHandlers' <= connectHandlers
           /\ sock' = "connecting" => sock = "connecting"
           /\ Pending' <= Pending
           /\ anyFailure' /\ sock = "null" => anyFailure
    ]_vars

\* stop() was called while the retry timer of a failed cycle was pending,
\* and the client has been idle and disconnected since.
C15_Witness ==
  /\ cancelled /\ __endRequest /\ anyFailure
  /\ _loopTimeout = 0 /\ Pending = 0
  /\ dials = <<>> /\ run = <<>> /\ sock = "idle" /\ ~isConnected

\* C16: while the stop flag stays set after stop(), the client makes no
\* socket.write: the count of frames written does not change.
C16_NoWriteAfterStop ==
  [][ (__endRequest /\ __endRequest') => nframes' = nframes ]_vars

\* C17: from every state in which stop() can be called, the state after
\* stop() has the stop flag set, no loop timer pending and isConnected()
\* false, and a second stop() leaves that state as it is.
C17_StopIdempotent ==
  Idle =>
    LET s == stop(Client) IN
    /\ s.endRequest
    /\ s.loopTimeout = 0 /\ s.leaked = 0
    /\ ~s.isConnected
    /\ stop(s) = s

\* What start() leads to from the present state.
AfterStart == loop([Client EXCEPT !.endRequest = FALSE, !.started = TRUE,
                                  !.cancelled = FALSE])

\* C18: start() called on a client that is not stopped and is making a
\* connection attempt or has a poll cycle in flight makes no socket.connect
\* call, begins no poll cycle and writes no frame.
C18_StartOnlyWhenNotRunning ==
  (Idle /\ ~__endRequest /\ (sock = "connecting" \/ dials # <<>>)) =>
     \A r \in AfterStart :
        /\ r.connectHandlers = connectHandlers
        /\ r.run = run
        /\ r.ncycles = ncycles
        /\ r.nframes = nframes

C20_IsConnectedMeansConnected ==
  /\ isConnected => sock = "open"
  /\ __endRequest => ~isConnected

\* C21: no exception is thrown out of a timer callback, a socket callback
\* or a call of the API: every failure is handled inside the client.
C21_NoUncaughtException == ~uncaught

\* C22: in the fair runs of a started client, every parameter list passed
\* to sendCommand is eventually written and removed from the queue (or the
\* run has reached the number of frames the model allows).
C22_EventuallyWritten ==
  \A k \in 1..MaxCmdsLive :
     (started /\ submitted >= k) ~>
        ((acked[k] /\ ~InQueue(k)) \/ nframes = MaxFramesLive)

\* ------------------------------------------------- claims about Request
\* The parts of the frame of theRequest, by their places in it.
TheFrame == theRequest.request
FrameLengthField == SubSeq(TheFrame, 11, 14)
FrameBody == SubSeq(TheFrame, 2, Len(TheFrame) - 5)
FrameCrcField == SubSeq(TheFrame, Len(TheFrame) - 4, Len(TheFrame) - 1)
FrameJoined ==
  SubSeq(TheFrame, 15 + Len(theRequest.command) + Len(theRequest.mode),
         Len(TheFrame) - 5)

\* P joined with ';', plus one trailing ';'.
Joined(P) ==
  Flatten([i \in 1..Len(P) |-> IF i < Len(P) THEN P[i] \o <<SEMI>> ELSE P[i]])
  \o <<SEMI>>

\* The sixteen uppercase hexadecimal digits, and the value of four of them.
UpperHex == <<48, 49, 50, 51, 52, 53, 54, 55, 56, 57, 65, 66, 67, 68, 69, 70>>
IsUpperHex(ch) == \E d \in 1..16 : UpperHex[d] = ch
DigitValue(ch) == (CHOOSE d \in 1..16 : UpperHex[d] = ch) - 1
HexValue(field) ==
  4096 * DigitValue(field[1]) + 256 * DigitValue(field[2])
  + 16 * DigitValue(field[3]) + DigitValue(field[4])
Hex4(v) ==
  << UpperHex[(v \div 4096) + 1], UpperHex[((v \div 256) % 16) + 1],
     UpperHex[((v \div 16) % 16) + 1], UpperHex[(v % 16) + 1] >>

\* C23: the frame of a Request built from command c, mode m, parameters P
\* and any id is '#', '00000', 'C---', four characters of length, c, m, P
\* joined with ';' plus a trailing ';', four characters of checksum and a
\* newline, and nothing else; every getRequest call returns the same bytes,
\* those of the frame.
C23_FrameLayout ==
  theRequest # NoRequest =>
    LET c == theRequest.command
        m == theRequest.mode
        j == Joined(theRequest.parameters)
        f == TheFrame
    IN /\ Len(f) = 1 + 5 + 4 + 4 + Len(c) + Len(m) + Len(j) + 4 + 1
       /\ SubSeq(f, 1, 1) = Text(<<"#">>)
       /\ SubSeq(f, 2, 6) = Text(<<"0", "0", "0", "0", "0">>)
       /\ SubSeq(f, 7, 10) = Text(<<"C", "-", "-", "-">>)
       /\ SubSeq(f, 15, 14 + Len(c)) = c
       /\ SubSeq(f, 15 + Len(c), 14 + Len(c) + Len(m)) = m
       /\ FrameJoined = j
       /\ f[Len(f)] = NL
       /\ \A i \in 1..Len(gotRequest) :
            /\ gotRequest[i] = gotRequest[1]
            /\ gotRequest[i] = Utf8(f)

\* A Request made with an id other than 0 and two parameters, whose
\* getRequest was called twice.
C23_Witness ==
  /\ theRequest # NoRequest /\ theRequest.id = 7
  /\ Len(theRequest.parameters) = 2
  /\ Len(gotRequest) = 2

\* The number of characters of P joined: those of its strings, a ';' between
\* two of them, and the trailing ';'.
RECURSIVE CharCount(_)
CharCount(P) ==
  IF P = <<>> THEN 1
  ELSE IF Len(P) = 1 THEN Len(P[1]) + 1
  ELSE Len(P[1]) + 1 + CharCount(Tail(P))

\* C24: the length field of the frame is four uppercase hexadecimal digits
\* whose value is the number of characters of the joined parameters, the
\* trailing ';' included.
C24_LengthField ==
  theRequest # NoRequest =>
    /\ Len(FrameLengthField) = 4
    /\ \A i \in 1..4 : IsUpperHex(FrameLengthField[i])
    /\ HexValue(FrameLengthField) = CharCount(theRequest.parameters)

\* A frame of two parameters, one of them the empty string, whose joined
\* parameters have 13 characters: the field is 000D.
C24_Witness ==
  /\ theRequest # NoRequest
  /\ Len(theRequest.parameters) = 2
  /\ \E i \in 1..2 : theRequest.parameters[i] = <<>>
  /\ FrameLengthField = Text(<<"0", "0", "0", "D">>)

\* CRC-16/CCITT-FALSE, bit by bit: the register starts at 0xFFFF; for each
\* bit of the message, the most significant first, the register is shifted
\* left by one and, if the bit shifted out differs from the message bit,
\* xored with 0x1021.
RECURSIVE CcittBits(_, _, _)
CcittBits(reg, byte, k) ==
  IF k < 0 THEN reg
  ELSE CcittBits(IF (reg \div 32768) # ((byte \div (2 ^ k)) % 2)
                 THEN Xor((2 * reg) % 65536, 4129)
                 ELSE (2 * reg) % 65536,
                 byte, k - 1)
RECURSIVE CcittFalseFrom(_, _, _)
CcittFalseFrom(reg, bytes, index) ==
  IF index > Len(bytes) THEN reg
  ELSE CHOOSE result \in {CcittFalseFrom(next, bytes, index + 1) :
                            next \in {CcittBits(reg, bytes[index], 7)}} : TRUE
CcittFalse(bytes) == CcittFalseFrom(65535, bytes, 1)

\* C25: the checksum field of the frame is the CRC-16/CCITT-FALSE of the
\* UTF-8 bytes of the frame between the leading '#' and the field, as four
\* uppercase hexadecimal digits with leading zeros.
C25_ChecksumField ==
  theRequest # NoRequest =>
    FrameCrcField = Hex4(CcittFalse(Utf8(FrameBody)))

\* A frame with a character of two UTF-8 bytes among its parameters.
C25_Witness ==
  /\ theRequest # NoRequest
  /\ \E i \in 1..Len(theRequest.parameters) :
       theRequest.parameters[i] = Text(<<"e'">>)
  /\ Len(Utf8(FrameBody)) = Len(FrameBody) + 1

\* C26, as claimed: splitting the joined parameters of the frame on ';'
\* returns the parameter list.
C26_RoundTrip ==
  theRequest # NoRequest => _extractData(FrameJoined) = theRequest.parameters

NoSemi(P) == \A i \in 1..Len(P) : \A k \in 1..Len(P[i]) : P[i][k] # SEMI

\* C26, amended: splitting the joined parameters of the frame on ';' returns
\* the parameter list followed by one empty string, when the list is not
\* empty and none of its strings contains ';'; for the empty list it returns
\* two empty strings.
C26_RoundTripTrailingEmpty ==
  theRequest # NoRequest =>
    LET P == theRequest.parameters IN
    /\ (P # <<>> /\ NoSemi(P)) => _extractData(FrameJoined) = Append(P, <<>>)
    /\ P = <<>> => _extractData(FrameJoined) = << <<>>, <<>> >>

\* A frame of two parameters without ';'.
C26_Witness ==
  /\ theRequest # NoRequest
  /\ theRequest.parameters = << Text(<<"0">>), Text(<<"1", "2">>) >>

\* --------------------------------------------- claims: the 'data' events
\* The step is a 'data' event: the socket stays open and hands over
\* segments that had arrived.
DataStep == sock = "open" /\ sock' = "open" /\ Len(stream') < Len(stream)
\* The chunk the 'data' event of the step delivers.
Delivered == Flatten(SubSeq(stream, 1, Len(stream) - Len(stream')))
\* Text up to and with its first newline removed.
AfterFirstLine(buf) == SubSeq(buf, Len(FirstLine(buf)) + 2, Len(buf))

\* C27: a response line that arrives in several chunks is reassembled: an
\* exchange resolves only on a chunk that contains the newline, and with
\* the ';'-split fields of the text of one response line, as if that line
\* had arrived in one chunk.
C27_SplitLineReassembled ==
  [][ \A i \in 1..Len(dials) :
        \A j \in 1..Len(dials') :
           (dials[i].st = "wait" /\ dials'[j].cyc = dials[i].cyc /\ dials'[j].st = "ok")
           => /\ DataStep
              /\ HasLine(Delivered)
              /\ \E n \in 1..nframes : dials'[j].val = ResponseFields(n) ]_vars

\* C28: when a read completes a line and carries more bytes after the
\* newline, the one exchange that waits resolves with the first complete
\* line only, and the bytes after the first newline stay in
\* _responseBuffer for the next exchange.
C28_RemainderPreserved ==
  [][ (DataStep /\ Cardinality(Waiting) = 1 /\ HasLine(_responseBuffer \o Delivered))
      => /\ _responseBuffer' = AfterFirstLine(_responseBuffer \o Delivered)
         /\ \A i \in Waiting :
              \E j \in 1..Len(dials') :
                 /\ dials'[j].cyc = dials[i].cyc /\ dials'[j].st = "ok"
                 /\ dials'[j].val = _extractData(FirstLine(_responseBuffer \o Delivered)) ]_vars

\* ---------------------------------------- claims: the Hottoh accessors
\* The integer a field of decimal digits, with or without '-', stands for.
IsDecimalInteger(field) ==
  /\ field # <<>> /\ field # <<45>>
  /\ \A i \in 1..Len(field) : IsDigit(field[i]) \/ (i = 1 /\ field[i] = 45)
RECURSIVE Horner(_, _)
Horner(field, acc) ==
  IF field = <<>> THEN acc ELSE Horner(Tail(field), 10 * acc + (Head(field) - 48))
IntegerOf(field) ==
  IF Head(field) = 45 THEN 0 - Horner(Tail(field), 0) ELSE Horner(field, 0)
\* The stove type the capability accessors were called on.
TheStoveType == IntegerOf(_data.fields[StoveRegisters.INDEX_STOVE_TYPE + 1])
Capabilities ==
  /\ reading.what = "capabilities" /\ _data.present
  /\ IsDecimalInteger(_data.fields[StoveRegisters.INDEX_STOVE_TYPE + 1])

\* C29: for stove type 0 every capability flag is false and the fan number
\* is 0; for a stove type with one bit of the sixteen set, exactly one
\* capability output is affected: one flag is true and the fan number is 0,
\* or the fan number is not 0 and no flag is true.
C29_OneBitOneCapability ==
  Capabilities =>
    /\ TheStoveType = 0 => (reading.flags = {} /\ reading.fan = 0)
    /\ (\E b \in 0..15 : TheStoveType = 2 ^ b) =>
         \/ Cardinality(reading.flags) = 1 /\ reading.fan = 0
         \/ reading.flags = {} /\ reading.fan # 0

\* The snapshot and the register each temperature getter stands for.
TemperatureRegister ==
  ("getSmokeTemperature" :> <<"data", StoveRegisters.INDEX_SMOKE_T>>)
  @@ ("getWaterTemperature" :> <<"data", StoveRegisters.INDEX_WATER>>)
  @@ ("getSetWaterTemperature" :> <<"data", StoveRegisters.INDEX_WATER_SET>>)
  @@ ("getSetMinWaterTemperature" :> <<"data", StoveRegisters.INDEX_WATER_SET_MIN>>)
  @@ ("getSetMaxWaterTemperature" :> <<"data", StoveRegisters.INDEX_WATER_SET_MAX>>)
  @@ ("getTemperatureRoom1" :> <<"data", StoveRegisters.INDEX_AMBIENT_T1>>)
  @@ ("getSetTemperatureRoom1" :> <<"data", StoveRegisters.INDEX_AMBIENT_T1_SET>>)
  @@ ("getSetMinTemperatureRoom1" :> <<"data", StoveRegisters.INDEX_AMBIENT_T1_SET_MIN>>)
  @@ ("getSetMaxTemperatureRoom1" :> <<"data", StoveRegisters.INDEX_AMBIENT_T1_SET_MAX>>)
  @@ ("getTemperatureRoom2" :> <<"data", StoveRegisters.INDEX_AMBIENT_T2>>)
  @@ ("getSetTemperatureRoom2" :> <<"data", StoveRegisters.INDEX_AMBIENT_T2_SET>>)
  @@ ("getSetMinTemperatureRoom2" :> <<"data", StoveRegisters.INDEX_AMBIENT_T2_SET_MIN>>)
  @@ ("getSetMaxTemperatureRoom2" :> <<"data", StoveRegisters.INDEX_AMBIENT_T2_SET_MAX>>)
  @@ ("getTemperatureRoom3" :> <<"data2", StoveRegisters.INDEX_ROOM_TEMP_3>>)
  @@ ("getSetTemperatureRoom3" :> <<"data2", StoveRegisters.INDEX_ROOM_TEMP_3_SET>>)
  @@ ("getSetMinTemperatureRoom3" :> <<"data2", StoveRegisters.INDEX_ROOM_TEMP_3_SET_MIN>>)
  @@ ("getSetMaxTemperatureRoom3" :> <<"data2", StoveRegisters.INDEX_ROOM_TEMP_3_SET_MAX>>)
\* The field of that register in the snapshots as they are.
RegisterField(g) == SlotValue(TemperatureRegister[g][1]).fields[TemperatureRegister[g][2] + 1]

\* C30: every temperature getter returns the integer of its snapshot field
\* divided by 10: when the field of its register holds the decimal integer
\* n, the number it returns is n/10.
C30_TemperatureIsTenths ==
  reading.what = "temperatures" =>
    \A g \in DOMAIN TemperatureRegister :
       (/\ SlotValue(TemperatureRegister[g][1]).present
        /\ IsDecimalInteger(RegisterField(g)))
       => /\ reading.values[g].kind = "number"
          /\ ~reading.values[g].value.nan
          /\ 10 * reading.values[g].value.num
               = IntegerOf(RegisterField(g)) * reading.values[g].value.den

\* The room 1 register holds "215" among other values, the room 3 register
\* of data2 holds "-5", and the getters returned 21.5 and -0.5.
C30_Witness ==
  /\ reading.what = "temperatures"
  /\ _data.present /\ _data2.present
  /\ RegisterField("getTemperatureRoom1") = <<50, 49, 53>>
  /\ RegisterField("getSmokeTemperature") = <<45, 53>>
  /\ RegisterField("getTemperatureRoom3") = <<45, 53>>
  /\ reading.values["getTemperatureRoom1"] = Number([nan |-> FALSE, num |-> 215, den |-> 10])
  /\ reading.values["getTemperatureRoom3"] = Number([nan |-> FALSE, num |-> -5, den |-> 10])

\* The codes of the lifecycle states, and the name the switch has for one.
StateCodes == {StoveState[s] : s \in DOMAIN StoveState}
NameOfCode(c) == Switch(Num(c), Unavailable("undefined"))
MappedCodes == {c \in 0..MaxStateCode : NameOfCode(c).kind = "literal"}
TheStateField == _data.fields[INDEX_STOVE_STATE + 1]
StateRead ==
  /\ reading.what = "state" /\ _data.present
  /\ IsDecimalInteger(TheStateField)
\* What _getStoveState returned is the name of the code in the field and
\* of no other code, or the field itself when it holds no code.
StateNamed ==
  StateRead =>
    IF IntegerOf(TheStateField) \in StateCodes
    THEN /\ reading.state = NameOfCode(IntegerOf(TheStateField))
         /\ reading.state.kind = "literal"
         /\ \A c \in StateCodes \ {IntegerOf(TheStateField)} :
               NameOfCode(c) # reading.state
    ELSE reading.state = [kind |-> "value", value |-> TheStateField]

\* C31 as stated: _getStoveState maps each of twenty-two state codes to its
\* own name, distinct from the names of the other codes, and returns the
\* field unchanged when it holds no such code.
C31_TwentyTwoStateNames == StateNamed /\ Cardinality(MappedCodes) = 22

\* C31: _getStoveState maps each of the twenty-one state codes to its own
\* name, distinct from the names of the other codes, and returns the field
\* unchanged when it holds no such code.
C31_TwentyOneStateNames ==
  StateNamed /\ Cardinality(MappedCodes) = 21 /\ MappedCodes = StateCodes

\* The state field holds the last code, 20, and its name was returned.
C31_Witness ==
  /\ StateRead
  /\ TheStateField = <<50, 48>>
  /\ reading.state = Literal("error_no_pellet")

\* The ten action categories.
ActionCategories ==
  {"off", "check", "clean_all", "loading", "waiting", "ignition",
   "stabilization", "heating", "stopping", "idle"}

\* C32: for every state name that _getStoveState produces from its table,
\* getAction returns one of the ten action categories.
C32_ActionIsCategory ==
  (reading.what = "state" /\ _data.present /\ reading.state.kind = "literal")
  => /\ reading.action.kind = "literal"
     /\ reading.action.value \in ActionCategories

\* The results that say that a value is not available.
UnavailableResults == {null, Unavailable("null"), Unavailable("not_connected")}
\* The snapshot that the accessor g of the reading reads.
SnapshotOf(g) ==
  IF reading.what = "temperatures" THEN SlotValue(TemperatureRegister[g][1]) ELSE _data

\* C33: an accessor whose snapshot is absent returns an unavailable result,
\* and one whose snapshot is present returns a value that is none: the
\* temperature getters, _getStoveState and getAction, the boolean getters
\* and the capability flags.
C33_AbsentIsUnavailable ==
  /\ reading.what \in {"temperatures", "booleans", "capabilities"} =>
       \A g \in DOMAIN reading.values :
          (reading.values[g] \in UnavailableResults) <=> ~SnapshotOf(g).present
  /\ reading.what = "state" =>
       /\ (reading.state \in UnavailableResults) <=> ~_data.present
       /\ (reading.action \in UnavailableResults) <=> ~_data.present

\* ------------------------------------------ claims: the loop as a whole
\* The listeners on the socket: the close, end and error handlers of the
\* constructor, the 'connect' handlers of __connect, and the data and error
\* listeners of every exchange that waits.
Listeners == 3 + connectHandlers + 2 * Cardinality(Waiting)

\* C34: the listeners on the socket do not accumulate: there are never more
\* than the three persistent handlers, one 'connect' handler and the data
\* and error listeners of one exchange.
C34_ListenersBounded ==
  /\ connectHandlers <= 1
  /\ Listeners <= 3 + 1 + 2

\* C35: a frame in mode W is written only in the drain of a poll cycle, on
\* continuing after the DAT 2 response of that cycle or after the response
\* to its previous write, and it is a DAT frame of that cycle with the
\* parameters of the entry at the head of the queue at that moment.
C35_WriteOnlyInDrain ==
  [][ (nframes' # nframes /\ lastFrame'.mode = "W")
      => /\ Continues("ok")
         /\ Continued.pc \in {"data2", "write"}
         /\ lastFrame' = Frame(Continued.cyc, "DAT", "W", ParamsOf(_writeParameters'[1]))
         /\ _writeParameters' # <<>>
         /\ Continued.pc = "data2" => _writeParameters' = _writeParameters
         /\ Continued.pc = "write" => _writeParameters' = Tail(_writeParameters) ]_vars

\* A cycle has written the frame of the second entry after the first was
\* answered and removed.
C35_Witness ==
  /\ lastFrame.mode = "W" /\ lastFrame.parameters = ParamsOf(2)
  /\ acked[1] /\ _writeParameters # <<>> /\ _writeParameters[1] = 2
  /\ \E i \in Waiting : dials[i].pc = "write" /\ dials[i].param = 2

\* C36: an exchange resolves with the response to its own request: when the
\* one exchange in flight is that of the frame written last, it resolves
\* with the fields of the response line to that frame, not with a line
\* that answers an earlier frame.
C36_ResponseAnswersItsRequest ==
  [][ \A j \in 1..Len(dials') :
        (/\ Len(dials) = 1 /\ dials[1].st = "wait"
         /\ lastFrame.cyc = dials[1].cyc
         /\ dials'[j].cyc = dials[1].cyc /\ dials'[j].st = "ok")
        => dials'[j].val = ResponseFields(lastFrame.seq) ]_vars

\* The continuations of the poll loop: the loop timers that are pending,
\* the 'connect' handlers that are registered or about to run, and the
\* __dial runs in flight.
Continuations ==
  Pending + connectHandlers
  + Cardinality({i \in 1..Len(run) : run[i].k = "connect"}) + Len(dials)

\* C37: at most one continuation of the poll loop exists at any time.
C37_OneContinuation == Continuations <= 1

\* dispose() has returned and the client was not started again since, or
\* was stopped again.
Disposed == disposed /\ __endRequest

\* C38: after dispose() the client is quiescent: the three snapshots stay
\* null, no frame is written, no loop timer is pending, and no step
\* changes the snapshots or, other than a call of sendCommand or of
\* dispose(), the queue.
C38_QuiescentAfterDispose ==
  /\ [](Disposed => /\ _info = NULL /\ _data = NULL /\ _data2 = NULL
                    /\ Pending = 0)
  /\ [][(Disposed /\ Disposed') =>
          /\ nframes' = nframes
          /\ << _info, _data, _data2 >>' = << _info, _data, _data2 >>
          /\ _writeParameters' = _writeParameters
             \/ submitted' # submitted \/ _writeParameters' = <<>>]_vars

\* What holds of a disposed client: all of the above but the timers.
NoEffectAfterDispose ==
  /\ [](Disposed => _info = NULL /\ _data = NULL /\ _data2 = NULL)
  /\ [][(Disposed /\ Disposed') =>
          /\ nframes' = nframes
          /\ << _info, _data, _data2 >>' = << _info, _data, _data2 >>
          /\ _writeParameters' = _writeParameters
             \/ submitted' # submitted \/ _writeParameters' = <<>>]_vars

\* The client before 1.0.1 was started once, was not stopped, and no
\* connection attempt has succeeded.
OnlyFailures0 ==
  client0.starts = 1 /\ ~client0.endRequest /\ ~client0.everConnected

\* C39: in the client before 1.0.1, after any number of consecutive
\* connection failures at most one 5 s retry timer is pending, and a retry
\* timer that fires makes at most one connection attempt.
C39_OneRetryPerFailure ==
  /\ [](OnlyFailures0 => client0.retryTimers <= 1)
  /\ [][client0.retryTimers' < client0.retryTimers
          => client0.attempts' <= client0.attempts + 1]_vars

====
